---- MODULE Spec2Model ----
(***************************************************************************)
(* Option entities of the charting configuration library (Legend, Zone,    *)
(* AnimationOptions, the state classes, and the treemap / heatmap / sankey *)
(* plot options): construction, validated attribute assignment, from_dict  *)
(* and to_dict, modelled as a state machine over one entity at a time.     *)
(***************************************************************************)
EXTENDS Integers, Sequences, FiniteSets, TLC

VARIABLES obj, last, nassign, mapping, parent_as_dict

vars == <<obj, last, nassign, mapping, parent_as_dict>>

(***************************************************************************)
(* Bounds of the model.                                                    *)
(***************************************************************************)
\* numbers given to setters range over -MaxNum .. MaxNum
MaxNum == 1
\* attribute assignments made on one entity after it is built
MaxAssign == 1

(***************************************************************************)
(* Python values.  Every value is a record of the same shape:              *)
(*   t  type tag: "None" "str" "num" "bool" "dict" "list" "obj"            *)
(*   c  class name of an "obj"                                             *)
(*   s  the characters of a "str", one per element                         *)
(*   n  a "num" in tenths (so 0.1 is 1 and 5 is 50); 0 / 1 for a "bool"    *)
(*   a  key -> value of a "dict", attribute -> value of an "obj",          *)
(*      index -> value of a "list"                                         *)
(***************************************************************************)
NoAttrs == <<>>

V(t, c, s, n, a) == [t |-> t, c |-> c, s |-> s, n |-> n, a |-> a]

PyNone == V("None", "", <<>>, 0, NoAttrs)

Str(s) == V("str", "", s, 0, NoAttrs)

Tenths(k) == V("num", "", <<>>, k, NoAttrs)

Num(k) == Tenths(k * 10)

Bool(b) == V("bool", "", <<>>, IF b THEN 1 ELSE 0, NoAttrs)

PyTrue == Bool(TRUE)

PyFalse == Bool(FALSE)

Dict(a) == V("dict", "", <<>>, 0, a)

List(items) == V("list", "", <<>>, 0, items)

Obj(c, a) == V("obj", c, <<>>, 0, a)

\* Python truthiness: `not value` is ~Truthy(value)
Truthy(v) ==
    CASE v.t = "None" -> FALSE
      [] v.t = "str"  -> Len(v.s) > 0
      [] v.t = "num"  -> v.n # 0
      [] v.t = "bool" -> v.n = 1
      [] v.t \in {"dict", "list"} -> DOMAIN v.a # {}
      [] OTHER -> TRUE

\* isinstance(value, classes) for the entity classes
IsInstance(v, classes) == v.t = "obj" /\ v.c \in classes

(***************************************************************************)
(* Strings are sequences of characters, so that str.lower() and the        *)
(* substring test `key in value` are computed, not assumed.                *)
(***************************************************************************)
UpperChars == <<"A", "B", "C", "D", "E", "F", "G", "H", "I", "J", "K", "L", "M",
                "N", "O", "P", "Q", "R", "S", "T", "U", "V", "W", "X", "Y", "Z">>

LowerChars == <<"a", "b", "c", "d", "e", "f", "g", "h", "i", "j", "k", "l", "m",
                "n", "o", "p", "q", "r", "s", "t", "u", "v", "w", "x", "y", "z">>

LowerChar(ch) ==
    IF \E i \in DOMAIN UpperChars : UpperChars[i] = ch
    THEN LowerChars[CHOOSE i \in DOMAIN UpperChars : UpperChars[i] = ch]
    ELSE ch

\* str.lower()
Lower(s) == [i \in 1..Len(s) |-> LowerChar(s[i])]

\* `sub in s` for two strings
IsSubstring(sub, s) ==
    \E i \in 1..(Len(s) - Len(sub) + 1) : SubSeq(s, i, i + Len(sub) - 1) = sub

s_left == <<"l", "e", "f", "t">>
s_center == <<"c", "e", "n", "t", "e", "r">>
s_right == <<"r", "i", "g", "h", "t">>
s_horizontal == <<"h", "o", "r", "i", "z", "o", "n", "t", "a", "l">>
s_vertical == <<"v", "e", "r", "t", "i", "c", "a", "l">>
s_proximate == <<"p", "r", "o", "x", "i", "m", "a", "t", "e">>
s_bottom == <<"b", "o", "t", "t", "o", "m">>
s_middle == <<"m", "i", "d", "d", "l", "e">>
s_top == <<"t", "o", "p">>
s_from == <<"f", "r", "o", "m">>
s_gradient == <<"g", "r", "a", "d", "i", "e", "n", "t">>
s_to == <<"t", "o">>
s_normal == <<"n", "o", "r", "m", "a", "l">>
s_percent == <<"p", "e", "r", "c", "e", "n", "t">>
s_stream == <<"s", "t", "r", "e", "a", "m">>
s_overlap == <<"o", "v", "e", "r", "l", "a", "p">>
s_round == <<"r", "o", "u", "n", "d">>
s_y == <<"y">>
s_black == <<"#", "0", "0", "0", "0", "0", "0">>
s_grey == <<"#", "c", "c", "c", "c", "c", "c">>
s_linearGradient == <<"l", "i", "n", "e", "a", "r", "G", "r", "a", "d", "i", "e", "n", "t">>
s_linear_gradient == <<"l", "i", "n", "e", "a", "r", "_", "g", "r", "a", "d", "i", "e", "n", "t">>
s_patternOptions == <<"p", "a", "t", "t", "e", "r", "n", "O", "p", "t", "i", "o", "n", "s">>
s_pattern_options == <<"p", "a", "t", "t", "e", "r", "n", "_", "o", "p", "t", "i", "o", "n", "s">>

\* a dictionary key and the same text as a string
Key(k, chars) == [k |-> k, chars |-> chars]

k_linearGradient == Key("linearGradient", s_linearGradient)
k_linear_gradient == Key("linear_gradient", s_linear_gradient)
k_patternOptions == Key("patternOptions", s_patternOptions)
k_pattern_options == Key("pattern_options", s_pattern_options)

\* Python `key in value`: key membership for a dict, substring for a str
In(key, value) ==
    CASE value.t = "dict" -> key.k \in DOMAIN value.a
      [] value.t = "str"  -> IsSubstring(key.chars, value.s)
      [] OTHER -> FALSE

(***************************************************************************)
(* Outcome of a setter or validator: the value it yields, or the           *)
(* exception it raises (err = "" when it returns).                         *)
(***************************************************************************)
\* the call returns v (a setter with this outcome stores v in its attribute)
OkR(v) == [err |-> "", v |-> v, stored |-> TRUE]

\* the call raises the exception `kind`
ErrR(kind) == [err |-> kind, v |-> PyNone, stored |-> FALSE]

\* a setter that returns without assigning its attribute
NotStored == [err |-> "", v |-> PyNone, stored |-> FALSE]

\* the exception classes an `except ValueError` clause catches
IsValueError(kind) ==
    kind \in {"ValueError", "HighchartsError", "HighchartsValueError",
              "EmptyValueError", "MinimumValueError", "NotAnIntegerError",
              "InvalidVariableNameError"}

(***************************************************************************)
(* The validators of validator_collection that the setters call.           *)
(* `minimum` is the set holding the bound, empty when none is given.       *)
(***************************************************************************)
IsDigit(ch) == ch \in {"0", "1", "2", "3", "4", "5", "6", "7", "8", "9"}

DigitValue(ch) == CHOOSE d \in 0..9 : <<"0", "1", "2", "3", "4", "5", "6", "7", "8", "9">>[d + 1] = ch

RECURSIVE ParseDigits(_)
ParseDigits(s) ==
    IF Len(s) = 0 THEN 0
    ELSE ParseDigits(SubSeq(s, 1, Len(s) - 1)) * 10 + DigitValue(s[Len(s)])

\* float(value) succeeds on a str of digits
IsNumericStr(s) == Len(s) > 0 /\ \A i \in 1..Len(s) : IsDigit(s[i])

validators_string(value, allow_empty) ==
    IF ~Truthy(value)
    THEN IF allow_empty THEN OkR(PyNone) ELSE ErrR("EmptyValueError")
    ELSE IF value.t = "str" THEN OkR(value) ELSE ErrR("CannotCoerceError")

\* float(value): a str of digits, a number or a bool coerces; nothing else does
coerced(value) ==
    CASE value.t = "str" /\ IsNumericStr(value.s) -> OkR(Num(ParseDigits(value.s)))
      [] value.t \in {"num", "bool"} -> OkR(value)
      [] OTHER -> ErrR("CannotCoerceError")

\* v < minimum, for a bound that was given
below(v, minimum) == \E m \in minimum : (IF v.t = "bool" THEN v.n * 10 ELSE v.n) < m * 10

\* the bound check on the coerced number r
check_minimum(r, minimum) ==
    IF r.err # "" THEN r
    ELSE IF below(r.v, minimum) THEN ErrR("MinimumValueError")
    ELSE r

validators_numeric(value, allow_empty, minimum) ==
    IF value.t = "None"
    THEN IF allow_empty THEN OkR(PyNone) ELSE ErrR("EmptyValueError")
    ELSE check_minimum(coerced(value), minimum)

\* the integer check on r, the outcome of validators.numeric
check_integer(r, coerce_value) ==
    IF r.err # "" \/ r.v.t = "None" THEN r
    ELSE IF r.v.t = "bool" THEN OkR(Num(r.v.n))
    ELSE IF r.v.n % 10 = 0 THEN r
    ELSE IF coerce_value THEN OkR(Num((r.v.n + 9) \div 10))
    ELSE ErrR("NotAnIntegerError")

validators_integer(value, allow_empty, minimum, coerce_value) ==
    check_integer(validators_numeric(value, allow_empty, minimum), coerce_value)

IsNameChar(ch) ==
    \/ ch = "_"
    \/ IsDigit(ch)
    \/ \E i \in DOMAIN UpperChars : ch \in {UpperChars[i], LowerChars[i]}

validators_variable_name(value, allow_empty) ==
    IF ~Truthy(value)
    THEN IF allow_empty THEN OkR(PyNone) ELSE ErrR("EmptyValueError")
    ELSE IF /\ value.t = "str"
            /\ ~IsDigit(value.s[1])
            /\ \A i \in 1..Len(value.s) : IsNameChar(value.s[i])
         THEN OkR(value)
         ELSE ErrR("InvalidVariableNameError")

\* str is among the literals validators.iterable forbids
validators_iterable(value) ==
    IF ~Truthy(value) THEN ErrR("EmptyValueError")
    ELSE IF value.t = "list" THEN OkR(value)
    ELSE ErrR("NotAnIterableError")

(***************************************************************************)
(* Gradient and Pattern, the structured colour values.  Their attributes   *)
(* are held under the snake_case names; from_dict / to_dict rename them.   *)
(***************************************************************************)
Restrict(f, keys) == [k \in (DOMAIN f) \cap keys |-> f[k]]

Rename(f, old, new) ==
    [k \in {IF j = old THEN new ELSE j : j \in DOMAIN f} |-> IF k = new /\ old \in DOMAIN f THEN f[old] ELSE f[k]]

\* a str is a JSON object when it is written between braces
IsJsonObject(s) == Len(s) >= 2 /\ s[1] = "{" /\ s[Len(s)] = "}"

\* the mapping a JSON str parses to: the discriminator keys it holds
ParsedJson(s) ==
    Dict([k \in {key.k : key \in {x \in {k_linearGradient, k_patternOptions} : IsSubstring(x.chars, s)}}
            |-> Dict([j \in {"id"} |-> Num(1)])])

Gradient_init(kwargs) ==
    OkR(Obj("Gradient", Restrict(kwargs.a, {"linear_gradient", "radial_gradient", "stops"})))

Gradient_from_dict(as_dict) ==
    Gradient_init(Dict(Rename(Rename(as_dict.a, "linearGradient", "linear_gradient"),
                              "radialGradient", "radial_gradient")))

Gradient_from_json(as_json) ==
    IF as_json.t = "str" /\ IsJsonObject(as_json.s)
    THEN Gradient_from_dict(ParsedJson(as_json.s))
    ELSE ErrR("ValueError")

Gradient_to_dict(g) ==
    Dict(Rename(Rename(g.a, "linear_gradient", "linearGradient"),
                "radial_gradient", "radialGradient"))

Pattern_init(kwargs) ==
    OkR(Obj("Pattern", Restrict(kwargs.a, {"pattern_options", "animation", "pattern_index"})))

Pattern_from_dict(as_dict) ==
    Pattern_init(Dict(Rename(Rename(as_dict.a, "patternOptions", "pattern_options"),
                             "patternIndex", "pattern_index")))

Pattern_from_json(as_json) ==
    IF as_json.t = "str" /\ IsJsonObject(as_json.s)
    THEN Pattern_from_dict(ParsedJson(as_json.s))
    ELSE ErrR("ValueError")

Pattern_to_dict(p) ==
    Dict(Rename(Rename(p.a, "pattern_options", "patternOptions"),
                "pattern_index", "patternIndex"))

(***************************************************************************)
(* Classes whose source is not part of this model's sources: an instance   *)
(* keeps the mapping it was built from.                                    *)
(***************************************************************************)
OpaqueClasses ==
    {"LegendAccessibilityOptions", "LegendNavigation", "BubbleLegend", "LegendTitle",
     "ShadowOptions", "CallbackFunction", "BreadcrumbOptions", "TreemapLevelOptions"}

RECURSIVE from_dict(_, _)
RECURSIVE Construct(_, _)
RECURSIVE Setter(_, _, _)
RECURSIVE to_dict(_)

\* decorators.validate_types: None, an instance of one of `types`, or a dict
\* handed to from_dict of the first of `types`
validate_types(value, types, allow_none) ==
    CASE value.t = "None" ->
             IF allow_none THEN OkR(PyNone) ELSE ErrR("HighchartsValueError")
      [] IsInstance(value, {types[i] : i \in DOMAIN types}) -> OkR(value)
      [] value.t = "dict" -> from_dict(types[1], value)
      [] OTHER -> ErrR("HighchartsValueError")

\* decorators.class_sensitive(cls) wrapped around a setter that stores its argument
class_sensitive(cls, value) == validate_types(value, <<cls>>, TRUE)

(***************************************************************************)
(* The setter bodies.  Setters that share one body in the source share one *)
(* definition here; the per-class tables below name the body of each       *)
(* attribute.                                                              *)
(***************************************************************************)
\* if value is None: None, else bool(value)
bool_setter(value) ==
    IF value.t = "None" THEN OkR(PyNone) ELSE OkR(Bool(Truthy(value)))

\* validators.string(value, allow_empty = True)
string_setter(value) == validators_string(value, TRUE)

\* validators.numeric(value, allow_empty = True)
numeric_setter(value) == validators_numeric(value, TRUE, {})

\* a variant of the bounded numeric setter that takes every falsy value for None
numeric_min0_setter_falsy_is_none(value) ==
    IF ~Truthy(value) THEN OkR(PyNone) ELSE validators_numeric(value, TRUE, {0})

\* validators.numeric(value, allow_empty = True, minimum = 0)
numeric_min0_setter(value) == validators_numeric(value, TRUE, {0})

\* validators.integer(value, allow_empty = True, minimum = 0)
integer_min0_setter(value) == validators_integer(value, TRUE, {0}, FALSE)

\* a variant of the enum setter that matches the value as it was given
enum_setter_case_sensitive(value, allowed, error) ==
    IF ~Truthy(value) THEN OkR(PyNone)
    ELSE LET r == validators_string(value, FALSE) IN
         IF r.err # "" THEN r
         ELSE IF r.v.s \notin allowed THEN ErrR(error) ELSE r

\* a variant of the lookup that stores the lower-cased value whatever it is
lookup_lowered_unchecked(lowered, allowed, error) == OkR(Str(lowered))

\* value.lower() looked up among the allowed values
lookup_lowered(lowered, allowed, error) ==
    IF lowered \notin allowed THEN ErrR(error) ELSE OkR(Str(lowered))

\* the lookup, once validators.string has returned r
enum_checked(r, allowed, error) ==
    IF r.err # "" THEN r ELSE lookup_lowered(Lower(r.v.s), allowed, error)

\* the lower-casing enum setters: align, layout, vertical_align, stacking, ...
enum_setter(value, allowed, error) ==
    IF ~Truthy(value) THEN OkR(PyNone)
    ELSE enum_checked(validators_string(value, FALSE), allowed, error)

\* a variant of the colour setter that stores a gradient mapping as it was given
color_setter_keeps_mapping(value) ==
    IF ~Truthy(value) THEN OkR(PyNone)
    ELSE IF IsInstance(value, {"Gradient", "Pattern"}) THEN OkR(value)
    ELSE IF value.t \in {"dict", "str"} /\ In(k_linearGradient, value) THEN OkR(value)
    ELSE IF value.t = "dict" /\ In(k_linear_gradient, value) THEN OkR(value)
    ELSE IF value.t \in {"dict", "str"} /\ In(k_patternOptions, value) THEN
        LET r == Pattern_from_json(value) IN
        IF r.err = "" \/ ~IsValueError(r.err) THEN r
        ELSE IF value.t = "dict" THEN Pattern_from_dict(value)
        ELSE validators_string(value, FALSE)
    ELSE IF value.t = "dict" /\ In(k_pattern_options, value) THEN Pattern_init(value)
    ELSE ErrR("HighchartsValueError")

\* a variant of the colour setter that looks for a pattern before a gradient
color_setter_pattern_first(value) ==
    IF ~Truthy(value) THEN OkR(PyNone)
    ELSE IF IsInstance(value, {"Gradient", "Pattern"}) THEN OkR(value)
    ELSE IF value.t \in {"dict", "str"} /\ In(k_patternOptions, value) THEN
        LET r == Pattern_from_json(value) IN
        IF r.err = "" \/ ~IsValueError(r.err) THEN r
        ELSE IF value.t = "dict" THEN Pattern_from_dict(value)
        ELSE validators_string(value, FALSE)
    ELSE IF value.t = "dict" /\ In(k_pattern_options, value) THEN Pattern_init(value)
    ELSE IF value.t \in {"dict", "str"} /\ In(k_linearGradient, value) THEN
        LET r == Gradient_from_json(value) IN
        IF r.err = "" \/ ~IsValueError(r.err) THEN r
        ELSE IF value.t = "dict" THEN Gradient_from_dict(value)
        ELSE validators_string(value, FALSE)
    ELSE IF value.t = "dict" /\ In(k_linear_gradient, value) THEN Gradient_init(value)
    ELSE ErrR("HighchartsValueError")

\* a variant of the colour setter that stores what it cannot resolve
color_setter_stores_unresolved(value) ==
    IF ~Truthy(value) THEN OkR(PyNone)
    ELSE IF IsInstance(value, {"Gradient", "Pattern"}) THEN OkR(value)
    ELSE IF value.t \in {"dict", "str"} /\ In(k_linearGradient, value) THEN
        LET r == Gradient_from_json(value) IN
        IF r.err = "" \/ ~IsValueError(r.err) THEN r
        ELSE IF value.t = "dict" THEN Gradient_from_dict(value)
        ELSE validators_string(value, FALSE)
    ELSE IF value.t = "dict" /\ In(k_linear_gradient, value) THEN Gradient_init(value)
    ELSE IF value.t \in {"dict", "str"} /\ In(k_patternOptions, value) THEN
        LET r == Pattern_from_json(value) IN
        IF r.err = "" \/ ~IsValueError(r.err) THEN r
        ELSE IF value.t = "dict" THEN Pattern_from_dict(value)
        ELSE validators_string(value, FALSE)
    ELSE IF value.t = "dict" /\ In(k_pattern_options, value) THEN Pattern_init(value)
    ELSE OkR(value)

\* try: r  except ValueError: handler
except_ValueError(r, handler) == IF IsValueError(r.err) THEN handler ELSE r

\* the colour setter: None, a Gradient / Pattern instance, a gradient
\* descriptor, a pattern descriptor, or an error
color_setter(value) ==
    IF ~Truthy(value) THEN OkR(PyNone)
    ELSE IF IsInstance(value, {"Gradient", "Pattern"}) THEN OkR(value)
    ELSE IF value.t \in {"dict", "str"} /\ In(k_linearGradient, value) THEN
        except_ValueError(Gradient_from_json(value),
                          IF value.t = "dict" THEN Gradient_from_dict(value)
                          ELSE validators_string(value, FALSE))
    ELSE IF value.t = "dict" /\ In(k_linear_gradient, value) THEN Gradient_init(value)
    ELSE IF value.t \in {"dict", "str"} /\ In(k_patternOptions, value) THEN
        except_ValueError(Pattern_from_json(value),
                          IF value.t = "dict" THEN Pattern_from_dict(value)
                          ELSE validators_string(value, FALSE))
    ELSE IF value.t = "dict" /\ In(k_pattern_options, value) THEN Pattern_init(value)
    ELSE ErrR("HighchartsValueError")


\* Legend.align
Legend_align(value) ==
    enum_setter(value, {s_left, s_center, s_right}, "HighchartsValueError")

\* Legend.layout
Legend_layout(value) ==
    enum_setter(value, {s_horizontal, s_vertical, s_proximate}, "HighchartsValueError")

\* Legend.vertical_align
Legend_vertical_align(value) ==
    enum_setter(value, {s_bottom, s_middle, s_top}, "HighchartsValueError")

\* Legend.width: a str, or failing that a number that is not negative
Legend_width(value) ==
    IF ~Truthy(value) THEN OkR(PyNone)
    ELSE except_ValueError(validators_string(value, FALSE), validators_numeric(value, FALSE, {0}))

\* Legend.shadow: None, False, or a ShadowOptions
Legend_shadow(value) ==
    IF value.t = "None" THEN OkR(PyNone)
    ELSE IF value.t = "bool" /\ value.n = 0 THEN OkR(PyFalse)
    ELSE validate_types(value, <<"ShadowOptions">>, FALSE)

\* a setter that validates into a local name: it raises what the validator
\* raises and assigns nothing
validated_not_stored(r) == IF r.err # "" THEN r ELSE NotStored

\* Legend.x: the validated number is bound to the local name and dropped
Legend_x(value) == validated_not_stored(validators_numeric(value, TRUE, {}))

\* Legend.y: as Legend.x
Legend_y(value) == validated_not_stored(validators_numeric(value, TRUE, {}))

\* constants.SUPPORTED_DASH_STYLE_VALUES, as the dash_style docstring lists them
s_Dash == <<"D", "a", "s", "h">>
s_DashDot == <<"D", "a", "s", "h", "D", "o", "t">>
s_Dot == <<"D", "o", "t">>
s_LongDash == <<"L", "o", "n", "g", "D", "a", "s", "h">>
s_ShortDash == <<"S", "h", "o", "r", "t", "D", "a", "s", "h">>
s_ShortDot == <<"S", "h", "o", "r", "t", "D", "o", "t">>
s_Solid == <<"S", "o", "l", "i", "d">>
SUPPORTED_DASH_STYLE_VALUES ==
    {s_Dash, s_DashDot, s_Dot, s_LongDash, s_LongDash \o s_Dot, s_LongDash \o s_Dot \o s_Dot,
     s_ShortDash, s_ShortDash \o s_Dot, s_ShortDash \o s_Dot \o s_Dot, s_ShortDot, s_Solid}

\* a variant of Zone.dash_style that lower-cases the value before the lookup
Zone_dash_style_lowered(value) ==
    IF ~Truthy(value) THEN OkR(PyNone)
    ELSE LET r == validators_string(value, FALSE) IN
         IF r.err # "" THEN r
         ELSE IF Lower(r.v.s) \notin SUPPORTED_DASH_STYLE_VALUES THEN ErrR("HighchartsValueError")
         ELSE OkR(Str(Lower(r.v.s)))

\* the lookup of the validated str r among the supported values
dash_style_checked(r) ==
    IF r.err # "" THEN r
    ELSE IF r.v.s \notin SUPPORTED_DASH_STYLE_VALUES THEN ErrR("HighchartsValueError")
    ELSE r

\* Zone.dash_style: the value is looked up as it was given
Zone_dash_style(value) ==
    IF ~Truthy(value) THEN OkR(PyNone)
    ELSE dash_style_checked(validators_string(value, FALSE))

\* a variant of the defer setter without the minimum
AnimationOptions_defer_no_minimum(value) == validators_integer(value, TRUE, {}, TRUE)

\* AnimationOptions.defer
AnimationOptions_defer(value) == validators_integer(value, TRUE, {0}, TRUE)

\* AnimationOptions.duration
AnimationOptions_duration(value) == validators_integer(value, TRUE, {0}, TRUE)

\* HoverState.color: the second definition of the property replaces the first
HoverState_color(value) == validators_string(value, TRUE)

\* SelectState.color: the second definition of the property replaces the first
SelectState_color(value) == validators_string(value, TRUE)

\* NormalState.animation: a bool, or an AnimationOptions
NormalState_animation(value) ==
    IF value.t = "bool" THEN OkR(value)
    ELSE validate_types(value, <<"AnimationOptions">>, TRUE)

\* a variant of the colsize setter whose bound is 0
HeatmapOptions_colsize_from_zero(value) == validators_integer(value, TRUE, {0}, FALSE)

\* HeatmapOptions.colsize
HeatmapOptions_colsize(value) == validators_integer(value, TRUE, {1}, FALSE)

\* HeatmapOptions.rowsize
HeatmapOptions_rowsize(value) == validators_integer(value, TRUE, {1}, FALSE)


\* TreemapOptions.animation_limit (the model has no infinite number)
TreemapOptions_animation_limit(value) == validators_numeric(value, TRUE, {0})

\* TreemapOptions.color_axis: None, False, a str, or failing that an index
TreemapOptions_color_axis(value) ==
    IF value.t = "None" THEN OkR(PyNone)
    ELSE IF value.t = "bool" /\ value.n = 0 THEN OkR(PyFalse)
    ELSE except_ValueError(validators_string(value, FALSE),
                           validators_integer(value, FALSE, {0}, FALSE))

\* TreemapOptions.color_by_point: bool(value), None included
TreemapOptions_color_by_point(value) == OkR(Bool(Truthy(value)))

RECURSIVE validate_items(_, _, _, _)

\* the i-th item validated with outcome r: its exception, or on to the next
validated_item(a, i, types, checked_values, r) ==
    IF r.err # "" THEN r
    ELSE validate_items(a, i + 1, types, Append(checked_values, r.v))

\* the items of `a` from the i-th on, each passed through validate_types
validate_items(a, i, types, checked_values) ==
    IF i > Len(a) THEN OkR(List(checked_values))
    ELSE validated_item(a, i, types, checked_values, validate_types(a[i], types, TRUE))

\* the items of the iterable r, each a Gradient or a Pattern
colors_checked(r) ==
    IF r.err # "" THEN r
    ELSE validate_items(r.v.a, 1, <<"Gradient", "Pattern">>, <<>>)

\* TreemapOptions.colors: every item of the iterable through validate_types
TreemapOptions_colors(value) ==
    IF ~Truthy(value) THEN OkR(PyNone)
    ELSE colors_checked(validators_iterable(value))

\* TreemapOptions.layout_algorithm
TreemapOptions_layout_algorithm(value) == validators_variable_name(value, TRUE)

\* TreemapOptions.layout_starting_direction
TreemapOptions_layout_starting_direction(value) ==
    enum_setter(value, {s_vertical, s_horizontal}, "HighchartsError")

\* TreemapOptions.stacking
TreemapOptions_stacking(value) ==
    enum_setter(value, {s_normal, s_percent, s_stream, s_overlap}, "HighchartsValueError")

\* SankeyOptions.link_color_mode
SankeyOptions_link_color_mode(value) ==
    enum_setter(value, {s_from, s_gradient, s_to}, "HighchartsValueError")

\* decorators.class_sensitive(cls, force_iterable = True)
class_sensitive_iterable(cls, value) ==
    IF ~Truthy(value) THEN OkR(PyNone)
    ELSE validate_items(IF value.t = "list" THEN value.a ELSE <<value>>, 1, <<cls>>, <<>>)

(***************************************************************************)
(* The classes.  For each class: the attributes' values before the first   *)
(* assignment (_initial), the assignments of the constructor in order with *)
(* the default each takes when its keyword is absent (_init), the keys     *)
(* from_dict reads with their defaults (_from_dict), the keys to_dict      *)
(* writes (_to_dict) and the setter body of each attribute (_setters).     *)
(* HeatmapOptions, TreemapOptions and SankeyOptions are modelled with the  *)
(* attributes their own class defines.                                     *)
(***************************************************************************)
B(body) == [b |-> body, c |-> ""]
CS(cls) == [b |-> "class_sensitive", c |-> cls]
CSL(cls) == [b |-> "class_sensitive_iterable", c |-> cls]

Legend_initial ==
    << <<"accessibility", PyNone>>, <<"align", PyNone>>, <<"align_columns", PyNone>>,
      <<"background_color", PyNone>>, <<"border_color", PyNone>>,
      <<"border_width", PyNone>>, <<"border_radius", PyNone>>,
      <<"bubble_legend", PyNone>>, <<"class_name", PyNone>>, <<"enabled", PyNone>>,
      <<"floating", PyNone>>, <<"item_checkbox_style", PyNone>>,
      <<"item_distance", PyNone>>, <<"item_hidden_style", PyNone>>,
      <<"item_hover_style", PyNone>>, <<"item_margin_bottom", PyNone>>,
      <<"item_margin_top", PyNone>>, <<"item_style", PyNone>>,
      <<"item_width", PyNone>>, <<"label_format", PyNone>>,
      <<"label_formatter", PyNone>>, <<"layout", PyNone>>, <<"margin", PyNone>>,
      <<"max_height", PyNone>>, <<"navigation", PyNone>>, <<"padding", PyNone>>,
      <<"reversed", PyNone>>, <<"rtl", PyNone>>, <<"shadow", PyNone>>,
      <<"square_symbol", PyNone>>, <<"symbol_height", PyNone>>,
      <<"symbol_padding", PyNone>>, <<"symbol_radius", PyNone>>,
      <<"symbol_width", PyNone>>, <<"title", PyNone>>, <<"use_html", PyNone>>,
      <<"vertical_align", PyNone>>, <<"width", PyNone>>, <<"x", PyNone>>,
      <<"y", PyNone>> >>

Legend_init ==
    << <<"accessibility", PyNone>>, <<"align", PyNone>>, <<"align_columns", PyNone>>,
      <<"background_color", PyNone>>, <<"border_color", PyNone>>,
      <<"border_width", PyNone>>, <<"border_radius", PyNone>>,
      <<"bubble_legend", PyNone>>, <<"class_name", PyNone>>, <<"enabled", PyNone>>,
      <<"floating", PyNone>>, <<"item_checkbox_style", PyNone>>,
      <<"item_distance", PyNone>>, <<"item_hidden_style", PyNone>>,
      <<"item_hover_style", PyNone>>, <<"item_margin_bottom", PyNone>>,
      <<"item_margin_top", PyNone>>, <<"item_style", PyNone>>,
      <<"item_width", PyNone>>, <<"label_format", PyNone>>,
      <<"label_formatter", PyNone>>, <<"layout", PyNone>>, <<"margin", PyNone>>,
      <<"max_height", PyNone>>, <<"navigation", PyNone>>, <<"padding", PyNone>>,
      <<"reversed", PyNone>>, <<"rtl", PyNone>>, <<"shadow", PyNone>>,
      <<"square_symbol", PyNone>>, <<"symbol_height", PyNone>>,
      <<"symbol_padding", PyNone>>, <<"symbol_radius", PyNone>>,
      <<"symbol_width", PyNone>>, <<"title", PyNone>>, <<"use_html", PyNone>>,
      <<"vertical_align", PyNone>>, <<"width", PyNone>>, <<"x", PyNone>>,
      <<"y", PyNone>> >>

Legend_from_dict ==
    << <<"accessibility", "accessibility", PyNone>>, <<"align", "align", PyNone>>,
      <<"align_columns", "alignColumns", PyNone>>,
      <<"background_color", "backgroundColor", PyNone>>,
      <<"border_color", "borderColor", PyNone>>,
      <<"border_width", "borderWidth", PyNone>>,
      <<"border_radius", "borderRadius", PyNone>>,
      <<"bubble_legend", "bubbleLegend", PyNone>>,
      <<"class_name", "className", PyNone>>, <<"enabled", "enabled", PyNone>>,
      <<"floating", "floating", PyNone>>,
      <<"item_checkbox_style", "itemCheckboxStyle", PyNone>>,
      <<"item_distance", "itemDistance", PyNone>>,
      <<"item_hidden_style", "itemHiddenStyle", PyNone>>,
      <<"item_hover_style", "itemHoverStyle", PyNone>>,
      <<"item_margin_bottom", "itemMarginBottom", PyNone>>,
      <<"item_margin_top", "itemMarginTop", PyNone>>,
      <<"item_style", "itemStyle", PyNone>>, <<"item_width", "itemWidth", PyNone>>,
      <<"label_format", "labelFormat", PyNone>>,
      <<"label_formatter", "labelFormatter", PyNone>>, <<"layout", "layout", PyNone>>,
      <<"margin", "margin", PyNone>>, <<"max_height", "maxHeight", PyNone>>,
      <<"navigation", "navigation", PyNone>>, <<"padding", "padding", PyNone>>,
      <<"reversed", "reversed", PyNone>>, <<"rtl", "rtl", PyNone>>,
      <<"shadow", "shadow", PyNone>>, <<"square_symbol", "squareSymbol", PyNone>>,
      <<"symbol_height", "symbolHeight", PyNone>>,
      <<"symbol_padding", "symbolPadding", PyNone>>,
      <<"symbol_radius", "symbolRadius", PyNone>>,
      <<"symbol_width", "symbolWidth", PyNone>>, <<"title", "title", PyNone>>,
      <<"use_html", "useHTML", PyNone>>, <<"vertical_align", "verticalAlign", PyNone>>,
      <<"width", "width", PyNone>>, <<"x", "x", PyNone>>, <<"y", "y", PyNone>> >>

Legend_to_dict ==
    << <<"accessibility", "accessibility">>, <<"align", "align">>,
      <<"alignColumns", "align_columns">>, <<"backgroundColor", "background_color">>,
      <<"borderColor", "border_color">>, <<"borderWidth", "border_width">>,
      <<"borderRadius", "border_radius">>, <<"bubbleLegend", "bubble_legend">>,
      <<"className", "class_name">>, <<"enabled", "enabled">>,
      <<"floating", "floating">>, <<"itemCheckboxStyle", "item_checkbox_style">>,
      <<"itemDistance", "item_distance">>, <<"itemHiddenStyle", "item_hidden_style">>,
      <<"itemHoverStyle", "item_hover_style">>,
      <<"itemMarginBottom", "item_margin_bottom">>,
      <<"itemMarginTop", "item_margin_top">>, <<"itemStyle", "item_style">>,
      <<"itemWidth", "item_width">>, <<"labelFormat", "label_format">>,
      <<"labelFormatter", "label_formatter">>, <<"layout", "layout">>,
      <<"margin", "margin">>, <<"maxHeight", "max_height">>,
      <<"navigation", "navigation">>, <<"padding", "padding">>,
      <<"reversed", "reversed">>, <<"rtl", "rtl">>, <<"shadow", "shadow">>,
      <<"squareSymbol", "square_symbol">>, <<"symbolHeight", "symbol_height">>,
      <<"symbolPadding", "symbol_padding">>, <<"symbolRadius", "symbol_radius">>,
      <<"symbolWidth", "symbol_width">>, <<"title", "title">>,
      <<"useHTML", "use_html">>, <<"verticalAlign", "vertical_align">>,
      <<"width", "width">>, <<"x", "x">>, <<"y", "y">> >>

Legend_setters ==
    [ accessibility |-> CS("LegendAccessibilityOptions"), align |-> B("Legend_align"),
      align_columns |-> B("bool"), background_color |-> B("color"),
      border_color |-> B("color"), border_radius |-> B("numeric"),
      border_width |-> B("numeric"), bubble_legend |-> CS("BubbleLegend"),
      class_name |-> B("string"), enabled |-> B("bool"), floating |-> B("bool"),
      item_checkbox_style |-> B("string"), item_distance |-> B("numeric_min0"),
      item_hidden_style |-> B("string"), item_hover_style |-> B("string"),
      item_margin_bottom |-> B("numeric_min0"), item_margin_top |-> B("numeric_min0"),
      item_style |-> B("string"), item_width |-> B("numeric_min0"),
      label_format |-> B("string"), label_formatter |-> CS("CallbackFunction"),
      layout |-> B("Legend_layout"), margin |-> B("numeric"),
      max_height |-> B("numeric_min0"), navigation |-> CS("LegendNavigation"),
      padding |-> B("numeric"), reversed |-> B("bool"), rtl |-> B("bool"),
      shadow |-> B("Legend_shadow"), square_symbol |-> B("bool"),
      symbol_height |-> B("numeric_min0"), symbol_padding |-> B("numeric"),
      symbol_radius |-> B("numeric"), symbol_width |-> B("numeric_min0"),
      title |-> CS("LegendTitle"), use_html |-> B("bool"),
      vertical_align |-> B("Legend_vertical_align"), width |-> B("Legend_width"),
      x |-> B("Legend_x"), y |-> B("Legend_y") ]

Zone_initial ==
    << <<"class_name", PyNone>>, <<"color", PyNone>>, <<"dash_style", PyNone>>,
      <<"fill_color", PyNone>>, <<"value", PyNone>> >>

Zone_init ==
    << <<"class_name", PyNone>>, <<"color", PyNone>>, <<"dash_style", PyNone>>,
      <<"fill_color", PyNone>>, <<"value", PyNone>> >>

Zone_from_dict ==
    << <<"class_name", "className", PyNone>>, <<"color", "color", PyNone>>,
      <<"dash_style", "dashStyle", PyNone>>, <<"fill_color", "fillColor", PyNone>>,
      <<"value", "value", PyNone>> >>

Zone_to_dict ==
    << <<"className", "class_name">>, <<"color", "color">>,
      <<"dashStyle", "dash_style">>, <<"fillColor", "fill_color">>,
      <<"value", "value">> >>

Zone_setters ==
    [ class_name |-> B("string"), color |-> B("color"),
      dash_style |-> B("Zone_dash_style"), fill_color |-> B("color"),
      value |-> B("numeric") ]

AnimationOptions_initial ==
    << <<"complete", PyNone>>, <<"defer", PyNone>>, <<"duration", PyNone>>,
      <<"easing", PyNone>>, <<"step", PyNone>> >>

AnimationOptions_init ==
    << <<"complete", PyNone>>, <<"defer", PyNone>>, <<"duration", PyNone>>,
      <<"easing", PyNone>>, <<"step", PyNone>> >>

AnimationOptions_from_dict ==
    << <<"complete", "complete", PyNone>>, <<"defer", "defer", PyNone>>,
      <<"duration", "duration", PyNone>>, <<"easing", "easing", PyNone>>,
      <<"step", "step", PyNone>> >>

AnimationOptions_to_dict ==
    << <<"complete", "complete">>, <<"defer", "defer">>, <<"duration", "duration">>,
      <<"easing", "easing">>, <<"step", "step">> >>

AnimationOptions_setters ==
    [ complete |-> CS("CallbackFunction"), defer |-> B("AnimationOptions_defer"),
      duration |-> B("AnimationOptions_duration"), easing |-> B("string"),
      step |-> CS("CallbackFunction") ]

HoverState_initial ==
    << <<"animation", PyNone>>, <<"border_color", PyNone>>, <<"brightness", Tenths(1)>>,
      <<"color", PyNone>>, <<"enabled", PyTrue>> >>

HoverState_init ==
    << <<"animation", PyNone>>, <<"border_color", PyNone>>, <<"brightness", Tenths(1)>>,
      <<"color", PyNone>>, <<"enabled", PyTrue>> >>

HoverState_from_dict ==
    << <<"animation", "animation", PyNone>>, <<"border_color", "borderColor", PyNone>>,
      <<"brightness", "brightness", Tenths(1)>>, <<"color", "color", PyNone>>,
      <<"enabled", "enabled", PyTrue>> >>

HoverState_to_dict ==
    << <<"animation", "animation">>, <<"borderColor", "border_color">>,
      <<"brightness", "brightness">>, <<"color", "color">>, <<"enabled", "enabled">> >>

HoverState_setters ==
    [ animation |-> CS("AnimationOptions"), border_color |-> B("color"),
      brightness |-> B("numeric"), color |-> B("HoverState_color"),
      enabled |-> B("bool") ]

InactiveState_initial ==
    << <<"animation", PyNone>>, <<"enabled", PyTrue>>, <<"opacity", Tenths(2)>> >>

InactiveState_init ==
    << <<"animation", PyNone>>, <<"enabled", PyTrue>>, <<"opacity", Tenths(2)>> >>

InactiveState_from_dict ==
    << <<"animation", "animation", PyNone>>, <<"enabled", "enabled", PyTrue>>,
      <<"opacity", "opacity", Tenths(2)>> >>

InactiveState_to_dict ==
    << <<"animation", "animation">>, <<"enabled", "enabled">>, <<"opacity", "opacity">> >>

InactiveState_setters ==
    [ animation |-> CS("AnimationOptions"), enabled |-> B("bool"),
      opacity |-> B("numeric") ]

NormalState_initial ==
    << <<"animation", PyNone>> >>

NormalState_init ==
    << <<"animation", PyNone>> >>

NormalState_from_dict ==
    << <<"animation", "animation", PyNone>> >>

NormalState_to_dict ==
    << <<"animation", "animation">> >>

NormalState_setters ==
    [ animation |-> B("NormalState_animation") ]

SelectState_initial ==
    << <<"animation", PyNone>>, <<"border_color", PyNone>>, <<"color", PyNone>>,
      <<"enabled", PyTrue>> >>

SelectState_init ==
    << <<"animation", PyNone>>, <<"border_color", Str(s_black)>>,
      <<"color", Str(s_grey)>>, <<"enabled", PyTrue>> >>

SelectState_from_dict ==
    << <<"animation", "animation", PyNone>>,
      <<"border_color", "borderColor", Str(s_black)>>,
      <<"color", "color", Str(s_grey)>>, <<"enabled", "enabled", PyTrue>> >>

SelectState_to_dict ==
    << <<"animation", "animation">>, <<"borderColor", "border_color">>,
      <<"color", "color">>, <<"enabled", "enabled">> >>

SelectState_setters ==
    [ animation |-> CS("AnimationOptions"), border_color |-> B("color"),
      color |-> B("SelectState_color"), enabled |-> B("bool") ]

States_initial ==
    << <<"hover", PyNone>>, <<"inactive", PyNone>>, <<"normal", PyNone>>,
      <<"select", PyNone>> >>

States_init ==
    << <<"hover", PyNone>>, <<"inactive", PyNone>>, <<"normal", PyNone>>,
      <<"select", PyNone>> >>

States_from_dict ==
    << <<"hover", "hover", PyNone>>, <<"inactive", "inactive", PyNone>>,
      <<"normal", "normal", PyNone>>, <<"select", "select", PyNone>> >>

States_to_dict ==
    << <<"hover", "hover">>, <<"inactive", "inactive">>, <<"normal", "normal">>,
      <<"select", "select">> >>

States_setters ==
    [ hover |-> CS("HoverState"), inactive |-> CS("InactiveState"),
      normal |-> CS("NormalState"), select |-> CS("SelectState") ]

HeatmapOptions_initial ==
    << <<"border_radius", PyNone>>, <<"colsize", PyNone>>, <<"null_color", PyNone>>,
      <<"point_padding", PyNone>>, <<"rowsize", PyNone>> >>

HeatmapOptions_init ==
    << <<"border_radius", PyNone>>, <<"colsize", PyNone>>, <<"null_color", PyNone>>,
      <<"point_padding", PyNone>>, <<"rowsize", PyNone>> >>

HeatmapOptions_from_dict ==
    << <<"border_radius", "borderRadius", PyNone>>, <<"colsize", "colsize", PyNone>>,
      <<"null_color", "nullColor", PyNone>>,
      <<"point_padding", "pointPadding", PyNone>>, <<"rowsize", "rowsize", PyNone>> >>

\* the keys that HeatmapOptions._get_kwargs_from_dict reads for the attributes
\* its parent classes define, with the default it gives each
HeatmapOptions_inherited_from_dict ==
    << <<"accessibility", "accessibility", PyNone>>,
      <<"allow_point_select", "allowPointSelect", PyFalse>>,
      <<"animation", "animation", PyNone>>, <<"class_name", "className", PyNone>>,
      <<"clip", "clip", PyTrue>>, <<"color", "color", PyNone>>,
      <<"cursor", "cursor", PyNone>>, <<"custom", "custom", PyNone>>,
      <<"dash_style", "dashStyle", PyNone>>, <<"data_labels", "dataLabels", PyNone>>,
      <<"description", "description", PyNone>>,
      <<"enable_mouse_tracking", "enableMouseTracking", PyTrue>>,
      <<"events", "events", PyNone>>,
      <<"include_in_data_export", "includeInDataExport", PyNone>>,
      <<"keys", "keys", PyNone>>, <<"label", "label", PyNone>>,
      <<"linked_to", "linkedTo", PyNone>>, <<"marker", "marker", PyNone>>,
      <<"on_point", "onPoint", PyNone>>, <<"opacity", "opacity", PyNone>>,
      <<"point", "point", PyNone>>,
      <<"point_description_formatter", "pointDescriptionFormatter", PyNone>>,
      <<"selected", "selected", PyFalse>>, <<"show_checkbox", "showCheckbox", PyFalse>>,
      <<"show_in_legend", "showInLegend", PyNone>>,
      <<"skip_keyboard_navigation", "skipKeyboardNavigation", PyNone>>,
      <<"states", "states", PyNone>>, <<"threshold", "threshold", PyNone>>,
      <<"tooltip", "tooltip", PyNone>>, <<"turbo_threshold", "turboThreshold", PyNone>>,
      <<"visible", "visible", PyTrue>>, <<"animation_limit", "animationLimit", PyNone>>,
      <<"boost_blending", "boostBlending", PyNone>>,
      <<"boost_threshold", "boostThreshold", Num(5000)>>,
      <<"color_axis", "colorAxis", PyNone>>, <<"color_index", "colorIndex", PyNone>>,
      <<"color_key", "colorKey", PyNone>>, <<"connect_ends", "connectEnds", PyNone>>,
      <<"connect_nulls", "connectNulls", PyFalse>>, <<"crisp", "crisp", PyTrue>>,
      <<"crop_threshold", "cropThreshold", Num(300)>>,
      <<"data_sorting", "dataSorting", PyNone>>, <<"drag_drop", "dragDrop", PyNone>>,
      <<"find_nearest_point_by", "findNearestPointBy", PyNone>>,
      <<"get_extremes_for_all", "getExtremesForAll", PyFalse>>,
      <<"linecap", "linecap", Str(s_round)>>, <<"line_width", "lineWidth", Num(2)>>,
      <<"negative_color", "negativeColor", PyNone>>,
      <<"point_interval", "pointInterval", Num(1)>>,
      <<"point_interval_unit", "pointIntervalUnit", PyNone>>,
      <<"point_placement", "pointPlacement", PyNone>>,
      <<"point_start", "pointStart", Num(0)>>,
      <<"relative_x_value", "relativeXValue", PyFalse>>, <<"shadow", "shadow", PyFalse>>,
      <<"soft_threshold", "softThreshold", PyTrue>>, <<"stacking", "stacking", PyNone>>,
      <<"step", "step", PyNone>>, <<"zone_axis", "zoneAxis", Str(s_y)>>,
      <<"zones", "zones", PyNone>> >>

HeatmapOptions_to_dict ==
    << <<"borderRadius", "border_radius">>, <<"colsize", "colsize">>,
      <<"nullColor", "null_color">>, <<"pointPadding", "point_padding">>,
      <<"rowsize", "rowsize">> >>

HeatmapOptions_setters ==
    [ border_radius |-> B("numeric_min0"), colsize |-> B("HeatmapOptions_colsize"),
      null_color |-> B("color"), point_padding |-> B("numeric"),
      rowsize |-> B("HeatmapOptions_rowsize") ]

TreemapOptions_initial ==
    << <<"animation_limit", PyNone>>, <<"boost_blending", PyNone>>,
      <<"boost_threshold", PyNone>>, <<"border_radius", PyNone>>,
      <<"color_axis", PyNone>>, <<"color_key", PyNone>>, <<"colors", PyNone>>,
      <<"crop_threshold", PyNone>>, <<"find_nearest_point_by", PyNone>>,
      <<"get_extremes_for_all", PyNone>>, <<"ignore_hidden_point", PyNone>>,
      <<"linecap", PyNone>>, <<"line_width", PyNone>>, <<"negative_color", PyNone>>,
      <<"point_interval", PyNone>>, <<"point_interval_unit", PyNone>>,
      <<"point_start", PyNone>>, <<"relative_x_value", PyNone>>,
      <<"soft_threshold", PyNone>>, <<"stacking", PyNone>>, <<"step", PyNone>>,
      <<"zone_axis", PyNone>>, <<"zones", PyNone>>, <<"color_by_point", PyNone>>,
      <<"color_index", PyNone>>, <<"crisp", PyNone>>,
      <<"allow_traversing_tree", PyNone>>, <<"breadcrumbs", PyNone>>,
      <<"level_is_constant", PyNone>>, <<"levels", PyNone>>,
      <<"alternate_starting_direction", PyNone>>, <<"interact_by_leaf", PyNone>>,
      <<"layout_algorithm", PyNone>>, <<"layout_starting_direction", PyNone>>,
      <<"sort_index", PyNone>> >>

TreemapOptions_init ==
    << <<"animation_limit", PyNone>>, <<"boost_blending", PyNone>>,
      <<"boost_threshold", Num(5000)>>, <<"color_axis", PyNone>>,
      <<"color_key", PyNone>>, <<"colors", PyNone>>, <<"crop_threshold", Num(300)>>,
      <<"find_nearest_point_by", PyNone>>, <<"get_extremes_for_all", PyFalse>>,
      <<"ignore_hidden_point", PyTrue>>, <<"linecap", Str(s_round)>>,
      <<"line_width", Num(2)>>, <<"negative_color", PyNone>>,
      <<"point_interval", Num(1)>>, <<"point_interval_unit", PyNone>>,
      <<"point_start", Num(0)>>, <<"relative_x_value", PyFalse>>,
      <<"soft_threshold", PyTrue>>, <<"stacking", PyNone>>, <<"step", PyNone>>,
      <<"zone_axis", Str(s_y)>>, <<"zones", PyNone>>, <<"color_index", PyNone>>,
      <<"crisp", PyNone>>, <<"allow_traversing_tree", PyNone>>,
      <<"breadcrumbs", PyNone>>, <<"color_by_point", PyNone>>,
      <<"level_is_constant", PyNone>>, <<"levels", PyNone>>,
      <<"alternate_starting_direction", PyNone>>, <<"interact_by_leaf", PyNone>>,
      <<"layout_algorithm", PyNone>>, <<"layout_starting_direction", PyNone>>,
      <<"sort_index", PyNone>> >>

TreemapOptions_from_dict ==
    << <<"animation_limit", "animationLimit", PyNone>>,
      <<"boost_blending", "boostBlending", PyNone>>,
      <<"boost_threshold", "boostThreshold", PyNone>>,
      <<"color_axis", "colorAxis", PyNone>>, <<"color_key", "colorKey", PyNone>>,
      <<"colors", "colors", PyNone>>, <<"crop_threshold", "cropThreshold", PyNone>>,
      <<"find_nearest_point_by", "findNearestPointBy", PyNone>>,
      <<"get_extremes_for_all", "getExtremesForAll", PyFalse>>,
      <<"ignore_hidden_point", "ignoreHiddenPoint", PyTrue>>,
      <<"linecap", "linecap", PyNone>>, <<"line_width", "lineWidth", PyNone>>,
      <<"negative_color", "negativeColor", PyNone>>,
      <<"point_interval", "pointInterval", PyNone>>,
      <<"point_interval_unit", "pointIntervalUnit", PyNone>>,
      <<"point_start", "pointStart", PyNone>>,
      <<"relative_x_value", "relativeXValue", PyNone>>,
      <<"soft_threshold", "softThreshold", PyNone>>,
      <<"stacking", "stacking", PyNone>>, <<"step", "step", PyNone>>,
      <<"zone_axis", "zoneAxis", PyNone>>, <<"zones", "zones", PyNone>>,
      <<"color_index", "colorIndex", PyNone>>, <<"crisp", "crisp", PyNone>>,
      <<"allow_traversing_tree", "allowTraversingTree", PyNone>>,
      <<"breadcrumbs", "breadcrumbs", PyNone>>,
      <<"color_by_point", "colorByPoint", PyNone>>,
      <<"level_is_constant", "levelIsConstant", PyNone>>,
      <<"levels", "levels", PyNone>>,
      <<"alternate_starting_direction", "alternateStartingDirection", PyNone>>,
      <<"interact_by_leaf", "interactByLeaf", PyNone>>,
      <<"layout_algorithm", "layoutAlgorithm", PyNone>>,
      <<"layout_starting_direction", "layoutStartingDirection", PyNone>>,
      <<"sort_index", "sortIndex", PyNone>> >>

TreemapOptions_to_dict ==
    << <<"animationLimit", "animation_limit">>, <<"boostBlending", "boost_blending">>,
      <<"boostThreshold", "boost_threshold">>, <<"colorAxis", "color_axis">>,
      <<"colorKey", "color_key">>, <<"colors", "colors">>,
      <<"cropThreshold", "crop_threshold">>,
      <<"findNearestPointBy", "find_nearest_point_by">>,
      <<"getExtremesForAll", "get_extremes_for_all">>,
      <<"ignoreHiddenPoint", "ignore_hidden_point">>, <<"linecap", "linecap">>,
      <<"lineWidth", "line_width">>, <<"negativeColor", "negative_color">>,
      <<"pointInterval", "point_interval">>,
      <<"pointIntervalUnit", "point_interval_unit">>, <<"pointStart", "point_start">>,
      <<"relativeXValue", "relative_x_value">>, <<"softThreshold", "soft_threshold">>,
      <<"stacking", "stacking">>, <<"step", "step">>, <<"zoneAxis", "zone_axis">>,
      <<"zones", "zones">>, <<"colorIndex", "color_index">>, <<"crisp", "crisp">>,
      <<"allowTraversingTree", "allow_traversing_tree">>,
      <<"breadcrumbs", "breadcrumbs">>, <<"colorByPoint", "color_by_point">>,
      <<"levelIsConstant", "level_is_constant">>, <<"levels", "levels">>,
      <<"alternateStartingDirection", "alternate_starting_direction">>,
      <<"interactByLeaf", "interact_by_leaf">>,
      <<"layoutAlgorithm", "layout_algorithm">>,
      <<"layoutStartingDirection", "layout_starting_direction">>,
      <<"sortIndex", "sort_index">> >>

TreemapOptions_setters ==
    [ allow_traversing_tree |-> B("bool"), alternate_starting_direction |-> B("bool"),
      animation_limit |-> B("TreemapOptions_animation_limit"),
      boost_blending |-> B("string"), boost_threshold |-> B("integer_min0"),
      breadcrumbs |-> CS("BreadcrumbOptions"),
      color_axis |-> B("TreemapOptions_color_axis"),
      color_by_point |-> B("TreemapOptions_color_by_point"),
      color_index |-> B("integer_min0"), color_key |-> B("string"),
      colors |-> B("TreemapOptions_colors"), crisp |-> B("bool"),
      crop_threshold |-> B("integer_min0"), find_nearest_point_by |-> B("string"),
      get_extremes_for_all |-> B("bool"), ignore_hidden_point |-> B("bool"),
      interact_by_leaf |-> B("bool"),
      layout_algorithm |-> B("TreemapOptions_layout_algorithm"),
      layout_starting_direction |-> B("TreemapOptions_layout_starting_direction"),
      level_is_constant |-> B("bool"), levels |-> CSL("TreemapLevelOptions"),
      linecap |-> B("string"), line_width |-> B("numeric_min0"),
      negative_color |-> B("color"), point_interval |-> B("numeric_min0"),
      point_interval_unit |-> B("string"), point_start |-> B("numeric"),
      relative_x_value |-> B("bool"), soft_threshold |-> B("bool"),
      sort_index |-> B("integer_min0"), stacking |-> B("TreemapOptions_stacking"),
      step |-> B("string"), zone_axis |-> B("string"), zones |-> CSL("Zone") ]

SankeyOptions_initial ==
    << <<"link_color_mode", PyNone>> >>

SankeyOptions_init ==
    << <<"link_color_mode", PyNone>> >>

SankeyOptions_from_dict ==
    << <<"link_color_mode", "linkColorMode", PyNone>> >>

SankeyOptions_to_dict ==
    << <<"linkColorMode", "link_color_mode">> >>

SankeyOptions_setters ==
    [ link_color_mode |-> B("SankeyOptions_link_color_mode") ]

(***************************************************************************)
(* Construction, from_dict and to_dict, driven by the class tables.        *)
(***************************************************************************)
Classes ==
    {"Legend", "Zone", "AnimationOptions", "HoverState", "InactiveState", "NormalState",
     "SelectState", "States", "HeatmapOptions", "TreemapOptions", "SankeyOptions"}

ClassInitial(cls) ==
    CASE cls = "Legend" -> Legend_initial
      [] cls = "Zone" -> Zone_initial
      [] cls = "AnimationOptions" -> AnimationOptions_initial
      [] cls = "HoverState" -> HoverState_initial
      [] cls = "InactiveState" -> InactiveState_initial
      [] cls = "NormalState" -> NormalState_initial
      [] cls = "SelectState" -> SelectState_initial
      [] cls = "States" -> States_initial
      [] cls = "HeatmapOptions" -> HeatmapOptions_initial
      [] cls = "TreemapOptions" -> TreemapOptions_initial
      [] cls = "SankeyOptions" -> SankeyOptions_initial

ClassInit(cls) ==
    CASE cls = "Legend" -> Legend_init
      [] cls = "Zone" -> Zone_init
      [] cls = "AnimationOptions" -> AnimationOptions_init
      [] cls = "HoverState" -> HoverState_init
      [] cls = "InactiveState" -> InactiveState_init
      [] cls = "NormalState" -> NormalState_init
      [] cls = "SelectState" -> SelectState_init
      [] cls = "States" -> States_init
      [] cls = "HeatmapOptions" -> HeatmapOptions_init
      [] cls = "TreemapOptions" -> TreemapOptions_init
      [] cls = "SankeyOptions" -> SankeyOptions_init

ClassFromDict(cls) ==
    CASE cls = "Legend" -> Legend_from_dict
      [] cls = "Zone" -> Zone_from_dict
      [] cls = "AnimationOptions" -> AnimationOptions_from_dict
      [] cls = "HoverState" -> HoverState_from_dict
      [] cls = "InactiveState" -> InactiveState_from_dict
      [] cls = "NormalState" -> NormalState_from_dict
      [] cls = "SelectState" -> SelectState_from_dict
      [] cls = "States" -> States_from_dict
      [] cls = "HeatmapOptions" -> HeatmapOptions_from_dict
      [] cls = "TreemapOptions" -> TreemapOptions_from_dict
      [] cls = "SankeyOptions" -> SankeyOptions_from_dict

ClassToDict(cls) ==
    CASE cls = "Legend" -> Legend_to_dict
      [] cls = "Zone" -> Zone_to_dict
      [] cls = "AnimationOptions" -> AnimationOptions_to_dict
      [] cls = "HoverState" -> HoverState_to_dict
      [] cls = "InactiveState" -> InactiveState_to_dict
      [] cls = "NormalState" -> NormalState_to_dict
      [] cls = "SelectState" -> SelectState_to_dict
      [] cls = "States" -> States_to_dict
      [] cls = "HeatmapOptions" -> HeatmapOptions_to_dict
      [] cls = "TreemapOptions" -> TreemapOptions_to_dict
      [] cls = "SankeyOptions" -> SankeyOptions_to_dict

ClassSetters(cls) ==
    CASE cls = "Legend" -> Legend_setters
      [] cls = "Zone" -> Zone_setters
      [] cls = "AnimationOptions" -> AnimationOptions_setters
      [] cls = "HoverState" -> HoverState_setters
      [] cls = "InactiveState" -> InactiveState_setters
      [] cls = "NormalState" -> NormalState_setters
      [] cls = "SelectState" -> SelectState_setters
      [] cls = "States" -> States_setters
      [] cls = "HeatmapOptions" -> HeatmapOptions_setters
      [] cls = "TreemapOptions" -> TreemapOptions_setters
      [] cls = "SankeyOptions" -> SankeyOptions_setters

\* the attributes a class has a setter for
Fields(cls) == DOMAIN ClassSetters(cls)

\* the outcome of running the setter body `body` on `value`
Apply(body, value) ==
    CASE body.b = "bool" -> bool_setter(value)
      [] body.b = "string" -> string_setter(value)
      [] body.b = "numeric" -> numeric_setter(value)
      [] body.b = "numeric_min0" -> numeric_min0_setter(value)
      [] body.b = "integer_min0" -> integer_min0_setter(value)
      [] body.b = "color" -> color_setter(value)
      [] body.b = "class_sensitive" -> class_sensitive(body.c, value)
      [] body.b = "class_sensitive_iterable" -> class_sensitive_iterable(body.c, value)
      [] body.b = "Legend_align" -> Legend_align(value)
      [] body.b = "Legend_layout" -> Legend_layout(value)
      [] body.b = "Legend_vertical_align" -> Legend_vertical_align(value)
      [] body.b = "Legend_width" -> Legend_width(value)
      [] body.b = "Legend_shadow" -> Legend_shadow(value)
      [] body.b = "Legend_x" -> Legend_x(value)
      [] body.b = "Legend_y" -> Legend_y(value)
      [] body.b = "Zone_dash_style" -> Zone_dash_style(value)
      [] body.b = "AnimationOptions_defer" -> AnimationOptions_defer(value)
      [] body.b = "AnimationOptions_duration" -> AnimationOptions_duration(value)
      [] body.b = "HoverState_color" -> HoverState_color(value)
      [] body.b = "SelectState_color" -> SelectState_color(value)
      [] body.b = "NormalState_animation" -> NormalState_animation(value)
      [] body.b = "HeatmapOptions_colsize" -> HeatmapOptions_colsize(value)
      [] body.b = "HeatmapOptions_rowsize" -> HeatmapOptions_rowsize(value)
      [] body.b = "TreemapOptions_animation_limit" -> TreemapOptions_animation_limit(value)
      [] body.b = "TreemapOptions_color_axis" -> TreemapOptions_color_axis(value)
      [] body.b = "TreemapOptions_color_by_point" -> TreemapOptions_color_by_point(value)
      [] body.b = "TreemapOptions_colors" -> TreemapOptions_colors(value)
      [] body.b = "TreemapOptions_layout_algorithm" -> TreemapOptions_layout_algorithm(value)
      [] body.b = "TreemapOptions_layout_starting_direction" ->
             TreemapOptions_layout_starting_direction(value)
      [] body.b = "TreemapOptions_stacking" -> TreemapOptions_stacking(value)
      [] body.b = "SankeyOptions_link_color_mode" -> SankeyOptions_link_color_mode(value)

\* `entity.f = value`: the outcome of the setter of attribute f of class cls
Setter(cls, f, value) == Apply(ClassSetters(cls)[f], value)

\* a variant of the assignment that stores what the setter holds when it ends,
\* raised or not
Assigned_also_when_raised(attrs, f, r) ==
    IF r.stored \/ r.err # "" THEN [attrs EXCEPT ![f] = r.v] ELSE attrs

\* the attributes of `entity` after `entity.f = value` with outcome r
Assigned(attrs, f, r) == IF r.stored THEN [attrs EXCEPT ![f] = r.v] ELSE attrs

\* the first column of a table, and the row a name heads
Column(t) == {t[i][1] : i \in DOMAIN t}
Row(t, name) == t[CHOOSE i \in DOMAIN t : t[i][1] = name]

\* the mapping a two-column table lists
TableMap(t) == [f \in Column(t) |-> Row(t, f)[2]]

\* the attributes as __init__ sets them before the first assignment
InitialAttrs(cls) == TableMap(ClassInitial(cls))

\* the keyword given for a step of __init__, or the step's default
kwarg(kwargs, step) == IF step[1] \in DOMAIN kwargs THEN kwargs[step[1]] ELSE step[2]

\* the outcome of each assignment of __init__, in the order they are made
init_outcomes(cls, steps, kwargs) ==
    [i \in DOMAIN steps |-> Setter(cls, steps[i][1], kwarg(kwargs, steps[i]))]

\* the first and the last index of a non-empty set of indices
First(I) == CHOOSE i \in I : \A j \in I : i <= j
Last(I) == CHOOSE i \in I : \A j \in I : i >= j

\* the steps among rs that raise, and those that store into attribute f
Raising(rs) == {i \in DOMAIN rs : rs[i].err # ""}
Storing(steps, rs, f) == {i \in DOMAIN rs : steps[i][1] = f /\ rs[i].stored}

\* a variant of initialized that passes over the assignments that raise
initialized_passing_over_errors(cls, steps, attrs, rs) ==
    OkR(Obj(cls, [f \in DOMAIN attrs |->
                    IF Storing(steps, rs, f) # {} THEN rs[Last(Storing(steps, rs, f))].v
                    ELSE attrs[f]]))

\* the instance the assignments with outcomes rs leave: the first exception
\* ends the construction; otherwise each attribute holds what was stored in
\* it last, or what it held before the first assignment
initialized(cls, steps, attrs, rs) ==
    IF Raising(rs) # {} THEN ErrR(rs[First(Raising(rs))].err)
    ELSE OkR(Obj(cls, [f \in DOMAIN attrs |->
                          IF Storing(steps, rs, f) # {} THEN rs[Last(Storing(steps, rs, f))].v
                          ELSE attrs[f]]))

\* __init__: each keyword, or its default, goes through the setter, in the
\* order of the assignments
RunInit(cls, steps, kwargs, attrs) ==
    initialized(cls, steps, attrs, init_outcomes(cls, steps, kwargs))

\* cls(**kwargs)
Construct(cls, kwargs) == RunInit(cls, ClassInit(cls), kwargs, InitialAttrs(cls))

\* as_dict.pop(key, default)
pop(as_dict, key, default) == IF key \in DOMAIN as_dict.a THEN as_dict.a[key] ELSE default

\* the keyword arguments the rows of t make of the mapping
kwargs_of(t, as_dict) == [kw \in Column(t) |-> pop(as_dict, Row(t, kw)[2], Row(t, kw)[3])]

\* the rows of _get_kwargs_from_dict for the attributes of the parent classes
InheritedFromDict(cls) ==
    IF cls = "HeatmapOptions" THEN HeatmapOptions_inherited_from_dict ELSE <<>>

\* the keyword arguments from_dict builds from the mapping: each key it
\* knows, with the default it gives to as_dict.pop / as_dict.get
get_kwargs_from_dict(cls, as_dict) ==
    kwargs_of(ClassFromDict(cls) \o InheritedFromDict(cls), as_dict)

\* cls.from_dict(as_dict)
from_dict(cls, as_dict) ==
    IF cls \in OpaqueClasses THEN OkR(Obj(cls, as_dict.a))
    ELSE IF cls = "Gradient" THEN Gradient_from_dict(as_dict)
    ELSE IF cls = "Pattern" THEN Pattern_from_dict(as_dict)
    ELSE Construct(cls, get_kwargs_from_dict(cls, as_dict))

\* the keys the rows of t look up in the mapping
ExternalKeys(t) == {t[i][2] : i \in DOMAIN t}

\* whether the class takes its keys out of the mapping with as_dict.pop
\* (every class but SankeyOptions, which reads them with as_dict.get)
Pops(cls) == cls # "SankeyOptions"

\* the mapping handed to from_dict as the call leaves it: the keyword
\* arguments are all taken before the constructor runs, so a call that
\* raises leaves the same mapping as a call that returns
after_from_dict(cls, as_dict) ==
    IF Pops(cls)
    THEN Dict(Restrict(as_dict.a,
                       DOMAIN as_dict.a \ ExternalKeys(ClassFromDict(cls) \o InheritedFromDict(cls))))
    ELSE as_dict

\* each key of the table t with the value of the attribute it names
untrimmed_of(t, entity) == [key \in Column(t) |-> entity.a[Row(t, key)[2]]]

\* a variant of to_untrimmed_dict that leaves out the attributes that hold an
\* entity
to_untrimmed_dict_without_entities(entity) ==
    [key \in DOMAIN untrimmed_of(ClassToDict(entity.c), entity) |->
        IF untrimmed_of(ClassToDict(entity.c), entity)[key].t = "obj" THEN PyNone
        ELSE untrimmed_of(ClassToDict(entity.c), entity)[key]]

\* the mapping before trimming: each key of the table with the attribute's value
to_untrimmed_dict(entity) == untrimmed_of(ClassToDict(entity.c), entity)

\* a value that trimming drops: None, an empty mapping, an empty sequence
IsEmptyValue(v) == v.t = "None" \/ (v.t \in {"dict", "list"} /\ DOMAIN v.a = {})

\* the items of a sequence that trimming keeps, in order
RECURSIVE TrimItems(_)
TrimItems(items) ==
    IF Len(items) = 0 THEN <<>>
    ELSE IF IsEmptyValue(Head(items)) THEN TrimItems(Tail(items))
    ELSE <<Head(items)>> \o TrimItems(Tail(items))

\* trimming, applied to a mapping whose values are serialized already
trim_dict(untrimmed) == Dict(Restrict(untrimmed, {k \in DOMAIN untrimmed : ~IsEmptyValue(untrimmed[k])}))

\* every value of a mapping or item of a sequence, serialized
serialized(f) == [k \in DOMAIN f |-> to_dict(f[k])]

\* a variant of to_dict that returns the mapping of an entity as it is before
\* trimming
to_dict_untrimmed(v) ==
    CASE v.t = "obj" /\ v.c = "Gradient" -> Gradient_to_dict(v)
      [] v.t = "obj" /\ v.c = "Pattern" -> Pattern_to_dict(v)
      [] v.t = "obj" /\ v.c \in OpaqueClasses -> Dict(v.a)
      [] v.t = "obj" -> Dict(serialized(to_untrimmed_dict(v)))
      [] v.t = "list" -> List(TrimItems(serialized(v.a)))
      [] v.t = "dict" -> trim_dict(serialized(v.a))
      [] OTHER -> v

\* the serialized form of a value held by an attribute
to_dict(v) ==
    CASE v.t = "obj" /\ v.c = "Gradient" -> Gradient_to_dict(v)
      [] v.t = "obj" /\ v.c = "Pattern" -> Pattern_to_dict(v)
      [] v.t = "obj" /\ v.c \in OpaqueClasses -> Dict(v.a)
      [] v.t = "obj" -> trim_dict(serialized(to_untrimmed_dict(v)))
      [] v.t = "list" -> List(TrimItems(serialized(v.a)))
      [] v.t = "dict" -> trim_dict(serialized(v.a))
      [] OTHER -> v

\* the classes whose to_dict / _to_untrimmed_dict adds the mapping of the
\* parent class to their own
ComposedClasses == {"HeatmapOptions", "SankeyOptions"}

\* the mappings that the parent class may return for an entity: the parent
\* classes are SeriesOptions, whose to_dict returns a trimmed mapping, and
\* DependencyWheelOptions, whose _to_untrimmed_dict returns an untrimmed one;
\* either may hold a key that the child class writes as well
ParentMappings(cls) ==
    CASE cls = "HeatmapOptions" ->
             {Dict(NoAttrs), Dict([visible |-> PyTrue]), Dict([borderRadius |-> Num(5)])}
      [] cls = "SankeyOptions" ->
             {Dict([visible |-> PyNone]), Dict([visible |-> PyTrue]),
              Dict([linkColorMode |-> Str(s_gradient)])}
      [] OTHER -> {PyNone}

\* for key in parent_as_dict: untrimmed[key] = parent_as_dict[key]
merged(untrimmed, parent) ==
    [key \in DOMAIN untrimmed \cup DOMAIN parent |->
        IF key \in DOMAIN parent THEN parent[key] ELSE untrimmed[key]]

\* entity.to_dict(), as a call that returns or raises, where `parent` is the
\* mapping of the parent class: TreemapOptions.to_dict calls super(self),
\* which raises TypeError before anything is returned
call_to_dict(entity, parent) ==
    IF entity.c = "TreemapOptions" THEN ErrR("TypeError")
    ELSE IF entity.c \in ComposedClasses
    THEN OkR(trim_dict(merged(serialized(to_untrimmed_dict(entity)), parent.a)))
    ELSE OkR(to_dict(entity))

(***************************************************************************)
(* The raw values handed to the setters, by setter body.                   *)
(***************************************************************************)
UpperChar(ch) ==
    IF \E i \in DOMAIN LowerChars : LowerChars[i] = ch
    THEN UpperChars[CHOOSE i \in DOMAIN LowerChars : LowerChars[i] = ch]
    ELSE ch

Upper(s) == [i \in 1..Len(s) |-> UpperChar(s[i])]

s_FF0000 == <<"#", "F", "F", "0", "0", "0", "0">>
s_diagonal == <<"d", "i", "a", "g", "o", "n", "a", "l">>
s_one == <<"1">>
s_json_gradient == <<"{", "\"">> \o s_linearGradient \o <<"\"", ":", "1", "}">>
s_json_pattern == <<"{", "\"">> \o s_patternOptions \o <<"\"", ":", "1", "}">>

Numbers == {Num(k) : k \in (0 - MaxNum)..MaxNum} \cup {Num(-5), Tenths(5)}

Falsy == {PyNone, Str(<<>>), Dict(NoAttrs), Num(0), PyFalse}

d_stops == Dict([id |-> Num(1)])
aGradient == Obj("Gradient", [linear_gradient |-> d_stops])
aPattern == Obj("Pattern", [pattern_options |-> d_stops])

ColorInputs ==
    Falsy \cup
    {Str(s_FF0000), Num(1), PyTrue, aGradient, aPattern,
     Dict([linearGradient |-> d_stops]), Dict([linear_gradient |-> d_stops]),
     Dict([patternOptions |-> d_stops]), Dict([pattern_options |-> d_stops]),
     Dict([linearGradient |-> d_stops, patternOptions |-> d_stops]),
     Dict([linear_gradient |-> d_stops, pattern_options |-> d_stops]),
     Dict([linear_gradient |-> d_stops, patternOptions |-> d_stops]),
     Dict([id |-> Num(1)]),
     Str(s_json_gradient), Str(s_json_pattern), Str(s_linearGradient), Str(s_patternOptions)}

EnumInputs(allowed) ==
    {PyNone, Str(<<>>), Str(s_diagonal), Num(1)}
        \cup {Str(a) : a \in allowed}
        \cup {Str(Upper(a)) : a \in allowed}
        \cup {Str(Lower(a)) : a \in allowed}

StringInputs == {PyNone, Str(<<>>), Str(s_FF0000), Str(s_one), Num(1)}

NumberInputs == {PyNone, Str(s_one), Str(s_diagonal)} \cup Numbers

BoolInputs == {PyNone, PyTrue, PyFalse, Num(0)}

\* an instance of cls: built with no arguments, or, for the class whose
\* construction raises without one, with a gradient for its border colour
AnInstance(cls) ==
    IF cls \in OpaqueClasses THEN Obj(cls, [id |-> Num(1)])
    ELSE Construct(cls, IF cls = "SelectState" THEN [border_color |-> aGradient] ELSE NoAttrs).v

\* raw values for an attribute holding an instance of cls
InstanceInputs(cls) ==
    {PyNone, PyFalse, Num(1), Dict(NoAttrs), Dict([enabled |-> PyTrue]),
     Dict([enabled |-> PyTrue, borderColor |-> Dict([linearGradient |-> d_stops])]),
     AnInstance(cls)}

\* the class whose instances a class-sensitive setter body stores
InstanceClass(body) ==
    CASE body.b = "Legend_shadow" -> "ShadowOptions"
      [] body.b = "NormalState_animation" -> "AnimationOptions"
      [] OTHER -> body.c

Inputs(body) ==
    CASE body.b = "bool" -> BoolInputs
      [] body.b = "string" -> StringInputs
      [] body.b = "TreemapOptions_layout_algorithm" -> StringInputs \cup {Str(s_diagonal)}
      [] body.b \in {"numeric", "numeric_min0", "integer_min0", "Legend_x", "Legend_y",
                     "AnimationOptions_defer", "AnimationOptions_duration",
                     "HeatmapOptions_colsize", "HeatmapOptions_rowsize",
                     "TreemapOptions_animation_limit"} -> NumberInputs
      [] body.b \in {"color", "HoverState_color", "SelectState_color"} -> ColorInputs
      [] body.b \in {"class_sensitive", "Legend_shadow", "NormalState_animation"} ->
             InstanceInputs(InstanceClass(body))
      [] body.b = "class_sensitive_iterable" ->
             {PyNone, List(<<>>), List(<<Dict(NoAttrs)>>), Dict([id |-> Num(1)])}
      [] body.b = "Legend_align" -> EnumInputs({s_left, s_center, s_right})
      [] body.b = "Legend_layout" -> EnumInputs({s_horizontal, s_vertical, s_proximate})
      [] body.b = "Legend_vertical_align" -> EnumInputs({s_bottom, s_middle, s_top})
      [] body.b = "Zone_dash_style" -> EnumInputs(SUPPORTED_DASH_STYLE_VALUES)
      [] body.b = "TreemapOptions_layout_starting_direction" ->
             EnumInputs({s_vertical, s_horizontal})
      [] body.b = "TreemapOptions_stacking" ->
             EnumInputs({s_normal, s_percent, s_stream, s_overlap})
      [] body.b = "SankeyOptions_link_color_mode" -> EnumInputs({s_from, s_gradient, s_to})
      [] body.b = "Legend_width" -> StringInputs \cup NumberInputs
      [] body.b = "TreemapOptions_color_axis" -> StringInputs \cup NumberInputs \cup {PyFalse}
      [] body.b = "TreemapOptions_color_by_point" -> BoolInputs
      [] body.b = "TreemapOptions_colors" ->
             {PyNone, List(<<>>), Str(s_FF0000), List(<<Str(s_FF0000)>>),
              List(<<aGradient, aPattern>>), List(<<Dict([linearGradient |-> d_stops])>>)}

\* the mappings that give the key of one row of t each raw value of its setter
OneKeyInputs(cls, t) ==
    UNION {{Dict([k \in {t[i][2]} |-> raw]) : raw \in Inputs(ClassSetters(cls)[t[i][1]])} :
               i \in DOMAIN t}

\* the mapping with one more key, which no entity knows
WithUnknownKey(as_dict) ==
    Dict([k \in DOMAIN as_dict.a \cup {"totallyUnknownKey"} |->
             IF k \in DOMAIN as_dict.a THEN as_dict.a[k] ELSE Num(1)])

\* one of the values S, or None when there is none
OneOf(S) == IF S = {} THEN PyNone ELSE CHOOSE raw \in S : TRUE

\* a raw value, other than a falsy one, that the setter of attribute f accepts
AcceptedInput(cls, f) ==
    OneOf({raw \in Inputs(ClassSetters(cls)[f]) : Truthy(raw) /\ Setter(cls, f, raw).err = ""})

\* the row that is paired with row i of a table of n rows: a neighbour
Partner(i, n) == IF i % 2 = 1 /\ i < n THEN i + 1 ELSE i - 1

\* the mappings that give the key of one row of t each raw value of its
\* setter and the key of a neighbouring row a value that its setter accepts
TwoKeyInputs(cls, t) ==
    UNION {{Dict([k \in {t[i][2], t[Partner(i, Len(t))][2]} |->
                    IF k = t[i][2] THEN raw
                    ELSE AcceptedInput(cls, t[Partner(i, Len(t))][1])]) :
                raw \in Inputs(ClassSetters(cls)[t[i][1]])} :
               i \in {j \in DOMAIN t : Len(t) > 1}}

\* the mappings handed to from_dict: empty, one unknown key, one known key,
\* one known key beside an unknown one, or two known keys
FromDictInputs(cls) ==
    {Dict(NoAttrs), Dict([unknownKey |-> Num(1)])}
        \cup OneKeyInputs(cls, ClassFromDict(cls))
        \cup {WithUnknownKey(d) : d \in OneKeyInputs(cls, ClassFromDict(cls))}
        \cup TwoKeyInputs(cls, ClassFromDict(cls))

(***************************************************************************)
(* The state: the entity under study (None while there is none), the       *)
(* latest operation with its outcome, and the assignments made so far.     *)
(* In `last`, f and raw name the latest assignment that succeeded, err is  *)
(* the exception the operation raised ("" when it returned) and out is     *)
(* what the operation yields: the attribute read back after an assignment, *)
(* the mapping of to_dict, the entity rebuilt by a round trip or built by a *)
(* second from_dict.  `mapping` is the mapping object handed to from_dict,  *)
(* as the calls made on it so far leave it (None while there is none, and   *)
(* once the entity is assigned to: the mapping is followed no further).     *)
(* `parent_as_dict` is the mapping that the parent class of the entity      *)
(* returns for it (None for a class that adds no mapping of a parent).      *)
(***************************************************************************)
Op(op, cls, f, raw, err, out) ==
    [op |-> op, cls |-> cls, f |-> f, raw |-> raw, err |-> err, out |-> out]

Init ==
    /\ obj = PyNone
    /\ last = Op("none", "", "", PyNone, "", PyNone)
    /\ nassign = 0
    /\ mapping = PyNone
    /\ parent_as_dict = PyNone

\* the entity and the report that a constructing call with outcome r leaves
Created(op, cls, raw, r) ==
    /\ obj' = r.v
    /\ last' = Op(op, cls, "", raw, r.err, r.v)

\* entity = cls()
New(cls, parent) ==
    /\ last.op = "none"
    /\ Created("New", cls, PyNone, Construct(cls, NoAttrs))
    /\ nassign' = 0
    /\ parent_as_dict' = parent
    /\ UNCHANGED mapping

\* the entity and the report that cls(f = raw) with outcome r leaves
CreatedWith(cls, f, raw, r) ==
    /\ obj' = r.v
    /\ last' = Op("NewWith", cls, f, raw, r.err, r.v)

\* entity = cls(f = raw)
NewWith(cls, f, raw) ==
    /\ last.op = "none"
    /\ CreatedWith(cls, f, raw, Construct(cls, [g \in {f} |-> raw]))
    /\ nassign' = 1
    /\ UNCHANGED <<mapping, parent_as_dict>>

\* entity = cls.from_dict(as_dict)
FromDict(cls, as_dict, parent) ==
    /\ last.op = "none"
    /\ Created("FromDict", cls, as_dict, from_dict(cls, as_dict))
    /\ nassign' = Cardinality(DOMAIN as_dict.a)
    /\ mapping' = after_from_dict(cls, as_dict)
    /\ parent_as_dict' = parent

\* the report that a second from_dict with outcome r leaves
Repeated(r) == last' = Op("FromDictAgain", last.cls, "", last.raw, r.err, r.v)

\* cls.from_dict(as_dict) once more, on the mapping object that the first
\* call was given
FromDictAgain ==
    /\ last.op = "FromDict"
    /\ Repeated(from_dict(last.cls, mapping))
    /\ mapping' = after_from_dict(last.cls, mapping)
    /\ UNCHANGED <<obj, nassign, parent_as_dict>>

\* the entity and the report that the assignment with outcome r leaves; out
\* is the attribute read back
AssignedEntity(f, raw, r, attrs) ==
    /\ obj' = Obj(obj.c, attrs)
    /\ last' = Op("SetAttr", obj.c, f, raw, r.err, IF r.err = "" THEN attrs[f] ELSE PyNone)

SetAttrOutcome(f, raw, r) == AssignedEntity(f, raw, r, Assigned(obj.a, f, r))

\* entity.f = raw
SetAttr(f, raw) ==
    /\ obj.t = "obj"
    /\ last.op \in {"New", "FromDict", "SetAttr"}
    /\ nassign < MaxAssign
    /\ SetAttrOutcome(f, raw, Setter(obj.c, f, raw))
    /\ nassign' = nassign + 1
    /\ mapping' = PyNone
    /\ UNCHANGED parent_as_dict

\* the assignment a later operation on the entity still reports
KeptF == IF last.op = "SetAttr" /\ last.err = "" THEN last.f ELSE ""
KeptRaw == IF last.op = "SetAttr" /\ last.err = "" THEN last.raw ELSE PyNone

\* the report of an operation with outcome r that leaves the entity as it is
Reported(op, r) == last' = Op(op, obj.c, KeptF, KeptRaw, r.err, r.v)

\* entity.to_dict()
ToDict ==
    /\ obj.t = "obj"
    /\ last.op \in {"New", "FromDict", "SetAttr"}
    /\ Reported("ToDict", call_to_dict(obj, parent_as_dict))
    /\ UNCHANGED <<obj, nassign, mapping, parent_as_dict>>

\* the report of a second to_dict with outcome r
Again(r) == last' = [last EXCEPT !.op = "ToDictAgain", !.err = r.err, !.out = r.v]

\* entity.to_dict() once more, straight after the first call
ToDictAgain ==
    /\ obj.t = "obj"
    /\ last.op = "ToDict"
    /\ Again(call_to_dict(obj, parent_as_dict))
    /\ UNCHANGED <<obj, nassign, mapping, parent_as_dict>>

\* from_dict of the mapping that to_dict returned with outcome d
rebuilt(cls, d) == IF d.err # "" THEN d ELSE from_dict(cls, d.v)

\* type(entity).from_dict(entity.to_dict())
RoundTrip ==
    /\ obj.t = "obj"
    /\ last.op \in {"New", "FromDict", "SetAttr"}
    /\ Reported("RoundTrip", rebuilt(obj.c, call_to_dict(obj, parent_as_dict)))
    /\ UNCHANGED <<obj, nassign, mapping, parent_as_dict>>

\* the classes an entity can be built of: any, while there is no entity
Buildable == IF last.op = "none" THEN Classes ELSE {}

\* the attributes that can be assigned to in this state
Assignable ==
    IF obj.t = "obj" /\ last.op \in {"New", "FromDict", "SetAttr"} /\ nassign < MaxAssign
    THEN Fields(obj.c)
    ELSE {}

Next ==
    \/ \E cls \in Buildable : \E parent \in ParentMappings(cls) : New(cls, parent)
    \/ \E cls \in Buildable : \E f \in Fields(cls) :
           \E raw \in Inputs(ClassSetters(cls)[f]) : NewWith(cls, f, raw)
    \/ \E cls \in Buildable : \E as_dict \in FromDictInputs(cls) :
           \E parent \in ParentMappings(cls) : FromDict(cls, as_dict, parent)
    \/ \E f \in Assignable : \E raw \in Inputs(ClassSetters(obj.c)[f]) : SetAttr(f, raw)
    \/ FromDictAgain
    \/ ToDict
    \/ ToDictAgain
    \/ RoundTrip

Spec == Init /\ [][Next]_vars

(***************************************************************************)
(* Properties.                                                             *)
(***************************************************************************)
\* the entity types whose class is defined in full in the sources
SourceEntities ==
    {"Legend", "Zone", "AnimationOptions", "HoverState", "InactiveState", "NormalState",
     "SelectState", "States"}

\* the polymorphic colour fields
PolymorphicColorFields ==
    {<<"Legend", "background_color">>, <<"Legend", "border_color">>, <<"Zone", "color">>,
     <<"Zone", "fill_color">>, <<"HeatmapOptions", "null_color">>,
     <<"TreemapOptions", "negative_color">>}

\* the latest operation assigned raw to one of the given fields
AssignedTo(fields) == last.op = "SetAttr" /\ <<last.cls, last.f>> \in fields

\* raw carries one of the gradient discriminators / pattern discriminators
HasGradientKey(raw) == In(k_linearGradient, raw) \/ In(k_linear_gradient, raw)
HasPatternKey(raw) == In(k_patternOptions, raw) \/ In(k_pattern_options, raw)

\* the value of attribute f of the entity is written by to_dict and kept by
\* the trimming
SurvivesTrimming(entity, f) ==
    LET t == ClassToDict(entity.c) IN
    \E i \in DOMAIN t : t[i][2] = f /\ t[i][1] \in DOMAIN to_dict(entity).a

\* C1: for every entity type of the sources and every entity e, the entity
\* from_dict(to_dict(e)) is built without error and agrees with e on every
\* field that is not None in e and survives trimming; in particular a number assigned to Legend.x
\* or Legend.y is the value of that field after the round trip.
C1_RoundTrip ==
    (last.op = "RoundTrip" /\ last.cls \in SourceEntities) =>
        /\ last.err = ""
        /\ \A f \in DOMAIN obj.a :
               (obj.a[f].t # "None" /\ SurvivesTrimming(obj, f)) => last.out.a[f] = obj.a[f]
        /\ (last.cls = "Legend" /\ last.f \in {"x", "y"} /\ last.raw.t = "num") =>
               last.out.a[last.f] = last.raw

\* C2: assigning a plain colour string that holds neither a gradient nor a
\* pattern discriminator (such as "#FF0000") to a polymorphic colour field
\* succeeds, and the field then holds exactly that string.
C2_PlainColourString ==
    (/\ AssignedTo(PolymorphicColorFields)
     /\ last.raw.t = "str" /\ Truthy(last.raw)
     /\ ~HasGradientKey(last.raw) /\ ~HasPatternKey(last.raw)) =>
        /\ last.err = ""
        /\ last.out.t = "str" /\ last.out.s = last.raw.s

\* C3: assigning a mapping that has the key linearGradient to a polymorphic
\* colour field stores a Gradient instance, and assigning a Gradient or
\* Pattern instance stores that instance unchanged.
C3_GradientResolution ==
    AssignedTo(PolymorphicColorFields) =>
        /\ (last.raw.t = "dict" /\ In(k_linearGradient, last.raw)) =>
               (last.err = "" /\ IsInstance(last.out, {"Gradient"}))
        /\ IsInstance(last.raw, {"Gradient", "Pattern"}) =>
               (last.err = "" /\ last.out = last.raw /\ obj.a[last.f] = last.raw)

\* a gradient mapping assigned to Zone.fill_color became a Gradient
C3_Witness ==
    /\ AssignedTo({<<"Zone", "fill_color">>})
    /\ last.raw.t = "dict" /\ In(k_linearGradient, last.raw)
    /\ IsInstance(obj.a["fill_color"], {"Gradient"})

\* C4: the colour resolver takes the first case that matches, in the order
\* falsy, Gradient / Pattern instance, gradient discriminator, pattern
\* discriminator; a mapping with both a gradient and a pattern discriminator
\* resolves to a Gradient, never to a Pattern.
C4_ResolverPrecedence ==
    AssignedTo(PolymorphicColorFields) =>
        IF ~Truthy(last.raw) THEN last.err = "" /\ last.out.t = "None"
        ELSE IF IsInstance(last.raw, {"Gradient", "Pattern"}) THEN last.out = last.raw
        ELSE IF last.raw.t = "dict" /\ HasGradientKey(last.raw)
             THEN last.err = "" /\ IsInstance(last.out, {"Gradient"})
        ELSE IF last.raw.t = "dict" /\ HasPatternKey(last.raw)
             THEN last.err = "" /\ IsInstance(last.out, {"Pattern"})
        ELSE TRUE

\* a mapping with both discriminators assigned to HeatmapOptions.null_color
\* became a Gradient
C4_Witness ==
    /\ AssignedTo({<<"HeatmapOptions", "null_color">>})
    /\ last.raw.t = "dict" /\ HasGradientKey(last.raw) /\ HasPatternKey(last.raw)
    /\ IsInstance(obj.a["null_color"], {"Gradient"})

ColorTypedFields ==
    PolymorphicColorFields \cup
    {<<"HoverState", "border_color">>, <<"HoverState", "color">>,
     <<"SelectState", "border_color">>, <<"SelectState", "color">>}

\* C6: every colour-typed field resolves a raw value to the same outcome, the
\* same stored value or the same error; HoverState.color and SelectState.color
\* behave like Legend.background_color for every input.
C6_UniformResolver ==
    AssignedTo(ColorTypedFields) =>
        LET r == Setter("Legend", "background_color", last.raw) IN
        /\ last.err = r.err
        /\ r.err = "" => obj.a[last.f] = r.v

\* C7: every entity type of the sources can be constructed with no arguments,
\* and built by from_dict from an empty mapping, without raising.
C7_NothingRequired ==
    (/\ last.cls \in SourceEntities
     /\ \/ last.op = "New"
        \/ last.op = "FromDict" /\ DOMAIN last.raw.a = {}) =>
        (last.err = "" /\ IsInstance(obj, {last.cls}))

\* the enum-constrained fields that C8 names, and the values each allows
NormalisingEnumFields ==
    {<<"Legend", "align">>, <<"Legend", "layout">>, <<"Legend", "vertical_align">>,
     <<"SankeyOptions", "link_color_mode">>}

AllowedValues(cls, f) ==
    CASE <<cls, f>> = <<"Legend", "align">> -> {s_left, s_center, s_right}
      [] <<cls, f>> = <<"Legend", "layout">> -> {s_horizontal, s_vertical, s_proximate}
      [] <<cls, f>> = <<"Legend", "vertical_align">> -> {s_bottom, s_middle, s_top}
      [] <<cls, f>> = <<"SankeyOptions", "link_color_mode">> -> {s_from, s_gradient, s_to}
      [] <<cls, f>> = <<"TreemapOptions", "stacking">> ->
             {s_normal, s_percent, s_stream, s_overlap}
      [] <<cls, f>> = <<"TreemapOptions", "layout_starting_direction">> ->
             {s_vertical, s_horizontal}
      [] <<cls, f>> = <<"Zone", "dash_style">> -> SUPPORTED_DASH_STYLE_VALUES

\* C8: on Legend.align, Legend.layout, Legend.vertical_align and
\* SankeyOptions.link_color_mode, a string that in lower case is outside the
\* allowed set raises the validation error, and a string that in lower case is
\* in the allowed set is accepted and stored in its lower-case form.
C8_EnumNormalisation ==
    (AssignedTo(NormalisingEnumFields) /\ last.raw.t = "str" /\ Truthy(last.raw)) =>
        IF Lower(last.raw.s) \in AllowedValues(last.cls, last.f)
        THEN last.err = "" /\ obj.a[last.f] = Str(Lower(last.raw.s))
        ELSE last.err = "HighchartsValueError"

\* "LEFT" assigned to Legend.align is stored as "left"
C8_Witness ==
    /\ AssignedTo({<<"Legend", "align">>})
    /\ last.raw.t = "str" /\ last.raw.s = Upper(s_left)
    /\ last.err = "" /\ obj.a["align"] = Str(s_left)

\* every enum-constrained field
EnumFields ==
    NormalisingEnumFields \cup
    {<<"TreemapOptions", "stacking">>, <<"TreemapOptions", "layout_starting_direction">>,
     <<"Zone", "dash_style">>}

\* C9 as stated: every enum-constrained field, Zone.dash_style included,
\* matches its input without regard to letter case: an input that differs
\* from an allowed value only by letter case is accepted.
C9_CaseInsensitiveEverywhere ==
    (/\ AssignedTo(EnumFields)
     /\ last.raw.t = "str"
     /\ \E a \in AllowedValues(last.cls, last.f) : Lower(a) = Lower(last.raw.s)) =>
        last.err = ""

\* C9: every enum-constrained field other than Zone.dash_style lower-cases its
\* input before matching it, so the outcome of an input is the outcome of its
\* lower-case form; Zone.dash_style matches its input as given: a listed dash
\* style is stored unchanged, and a string that is not listed, even one that
\* differs from a listed style only by letter case, raises HighchartsValueError.
C9_CaseInsensitiveExceptDashStyle ==
    (AssignedTo(EnumFields) /\ last.raw.t = "str" /\ Truthy(last.raw)) =>
        IF <<last.cls, last.f>> = <<"Zone", "dash_style">>
        THEN IF last.raw.s \in SUPPORTED_DASH_STYLE_VALUES
             THEN last.err = "" /\ obj.a[last.f] = last.raw
             ELSE last.err = "HighchartsValueError"
        ELSE LET r == Setter(last.cls, last.f, Str(Lower(last.raw.s))) IN
             /\ last.err = r.err
             /\ r.err = "" => (obj.a[last.f] = r.v /\ r.v = Str(Lower(last.raw.s)))

\* "dash" assigned to Zone.dash_style is refused
C9_Witness ==
    /\ AssignedTo({<<"Zone", "dash_style">>})
    /\ last.raw.t = "str" /\ last.raw.s = Lower(s_Dash)
    /\ last.err = "HighchartsValueError"

\* the fields of Legend declared non-negative
NonNegativeLegendFields ==
    {<<"Legend", f>> : f \in {"item_distance", "item_margin_bottom", "item_margin_top",
                              "item_width", "max_height", "symbol_height", "symbol_width"}}

\* C10: on every Legend field declared non-negative, assigning a negative
\* number raises the validation error, and assigning 0 succeeds and the field
\* then reads 0, not None.
C10_BoundRejection ==
    (AssignedTo(NonNegativeLegendFields) /\ last.raw.t = "num") =>
        /\ last.raw.n < 0 => (last.err # "" /\ IsValueError(last.err))
        /\ last.raw.n = 0 => (last.err = "" /\ obj.a[last.f].t = "num" /\ obj.a[last.f].n = 0)

\* 0 assigned to Legend.item_distance reads 0
C10_Witness ==
    /\ AssignedTo({<<"Legend", "item_distance">>})
    /\ last.raw.t = "num" /\ last.raw.n = 0
    /\ last.err = "" /\ obj.a["item_distance"].t = "num" /\ obj.a["item_distance"].n = 0

\* the part of a mapping under the keys that the class recognises
Recognised(cls, as_dict) == Dict(Restrict(as_dict.a, ExternalKeys(ClassFromDict(cls))))

\* the mapping holds a key that the class does not recognise
HasUnknownKey(cls, as_dict) == ~(DOMAIN as_dict.a \subseteq ExternalKeys(ClassFromDict(cls)))

\* the attribute that from_dict fills from the external key
AttributeOf(cls, key) ==
    LET t == ClassFromDict(cls) IN t[CHOOSE i \in DOMAIN t : t[i][2] = key][1]

\* what attribute f holds after `entity.f = raw` on a fresh entity
HeldAfter(cls, f, raw) ==
    LET r == Setter(cls, f, raw) IN IF r.stored THEN r.v ELSE InitialAttrs(cls)[f]

\* C11: from_dict on a mapping that holds a key the entity does not recognise
\* succeeds, ignores that key and sets every recognised key it finds: when
\* the setter of each recognised key accepts the value found, the call
\* returns an entity and every such attribute holds what assigning the value
\* leaves, and the call ends as from_dict on the recognised part of the
\* mapping ends; Legend.from_dict of {"totallyUnknownKey": 1, "enabled": True}
\* yields a Legend whose enabled is True.
C11_UnknownKeyTolerance ==
    (last.op = "FromDict" /\ HasUnknownKey(last.cls, last.raw)) =>
        LET known == Recognised(last.cls, last.raw)
            r == from_dict(last.cls, known)
        IN
        /\ last.err = r.err /\ obj = r.v
        /\ (\A k \in DOMAIN known.a :
                Setter(last.cls, AttributeOf(last.cls, k), known.a[k]).err = "") =>
               /\ last.err = "" /\ IsInstance(obj, {last.cls})
               /\ \A k \in DOMAIN known.a :
                      obj.a[AttributeOf(last.cls, k)] =
                          HeldAfter(last.cls, AttributeOf(last.cls, k), known.a[k])

\* C12: for every entity type, from_dict gives None to every recognised key
\* that is absent from the mapping: the keyword arguments it builds carry
\* None under every such key, and the attribute of the entity it returns is
\* None (HoverState.from_dict({}) has brightness None and enabled None; the
\* keyword arguments HeatmapOptions builds from {} carry None for every key).
C12_AbsentKeysDefaultNone ==
    last.op = "FromDict" =>
        LET t == ClassFromDict(last.cls) \o InheritedFromDict(last.cls)
            kwargs == get_kwargs_from_dict(last.cls, last.raw)
        IN
        /\ \A i \in DOMAIN t : t[i][2] \notin DOMAIN last.raw.a => kwargs[t[i][1]] = PyNone
        /\ last.err = "" =>
               \A i \in DOMAIN ClassFromDict(last.cls) :
                   t[i][2] \notin DOMAIN last.raw.a => obj.a[t[i][1]] = PyNone

\* C13: from_dict is a pure transform of its input: when from_dict returns or
\* raises, the mapping it was given holds exactly the keys and values it held
\* before the call, and a second from_dict on the same mapping object yields
\* an entity equal to the first.
C13_FromDictPure ==
    /\ last.op \in {"FromDict", "FromDictAgain"} => mapping = last.raw
    /\ (last.op = "FromDictAgain" /\ obj.t = "obj") => (last.err = "" /\ last.out = obj)

\* no key of the mapping (item of the sequence) v has the value None, an
\* empty mapping or an empty sequence, at every nesting level
RECURSIVE Trimmed(_)
Trimmed(v) ==
    v.t \in {"dict", "list"} =>
        \A k \in DOMAIN v.a : ~IsEmptyValue(v.a[k]) /\ Trimmed(v.a[k])

\* C14: in the mapping that to_dict returns, at every nesting level, no key
\* has the value None, an empty mapping or an empty sequence, and every key
\* present is the camelCase external key of a field of the entity whose
\* current value is not empty (a field of its own, or one that the mapping of
\* its parent class holds).
C14_TrimmedOutput ==
    (last.op = "ToDict" /\ last.err = "") =>
        /\ last.out.t = "dict" /\ Trimmed(last.out)
        /\ \A k \in DOMAIN last.out.a :
               \/ /\ k \in Column(ClassToDict(obj.c))
                  /\ ~IsEmptyValue(obj.a[Row(ClassToDict(obj.c), k)[2]])
               \/ /\ obj.c \in ComposedClasses
                  /\ k \in DOMAIN parent_as_dict.a
                  /\ ~IsEmptyValue(parent_as_dict.a[k])

\* to_dict of a States entity returned the nested mapping of its hover state
\* and left out the states that are None
C14_Witness ==
    /\ last.op = "ToDict" /\ last.err = "" /\ last.cls = "States"
    /\ obj.a["hover"].t = "obj" /\ obj.a["inactive"].t = "None"
    /\ DOMAIN last.out.a = {"hover"}
    /\ last.out.a["hover"].t = "dict" /\ "enabled" \in DOMAIN last.out.a["hover"].a
    /\ "animation" \notin DOMAIN last.out.a["hover"].a

\* the value holds something that trimming keeps: it is not None, and a
\* mapping, a sequence or an entity holds such a value in turn
RECURSIVE HasContent(_)
HasContent(v) ==
    IF v.t = "None" THEN FALSE
    ELSE IF v.t \in {"dict", "list", "obj"} THEN \E k \in DOMAIN v.a : HasContent(v.a[k])
    ELSE TRUE

\* the external keys of the entity under which it holds a nested entity with
\* at least one non-empty field
NestedEntityKeys(entity) ==
    LET t == ClassToDict(entity.c) IN
    {t[i][1] : i \in {j \in DOMAIN t : entity.a[t[j][2]].t = "obj" /\ HasContent(entity.a[t[j][2]])}}

ProducedByBoth(entity, parent) ==
    {k \in Column(ClassToDict(entity.c)) \cap DOMAIN parent.a :
        ~IsEmptyValue(to_dict(entity.a[Row(ClassToDict(entity.c), k)[2]]))}

RejectedKeys(cls, as_dict) ==
    {k \in DOMAIN Recognised(cls, as_dict).a :
        Setter(cls, AttributeOf(cls, k), as_dict.a[k]).err # ""}

\* C17: from_dict is all-or-nothing: if the validator of any one field
\* rejects the value found for it, from_dict raises and returns no entity,
\* whatever the other keys of the mapping hold.
C17_AllOrNothing ==
    (last.op = "FromDict" /\ RejectedKeys(last.cls, last.raw) # {}) =>
        (last.err # "" /\ obj = PyNone /\ last.out = PyNone)

\* from_dict raised on a mapping with two recognised keys of which one holds
\* a value that its setter accepts, and returned no entity
C17_Witness ==
    /\ last.op = "FromDict" /\ last.err # "" /\ obj = PyNone
    /\ Cardinality(DOMAIN Recognised(last.cls, last.raw).a) = 2
    /\ Cardinality(RejectedKeys(last.cls, last.raw)) = 1
    /\ \E k \in DOMAIN last.raw.a \ RejectedKeys(last.cls, last.raw) : Truthy(last.raw.a[k])

\* C18: for every field f and every raw value v, constructing the entity
\* with f = v and constructing it with no arguments then assigning f = v give
\* the same outcome: the same error, or the same value held by f.
C18_NoRawBypass ==
    last.op = "NewWith" =>
        LET fresh == Construct(last.cls, NoAttrs)
            r == Setter(last.cls, last.f, last.raw)
        IN
        IF fresh.err # "" THEN last.err = fresh.err
        ELSE IF r.err # "" THEN last.err = r.err
        ELSE last.err = "" /\ obj.a[last.f] = Assigned(fresh.v.a, last.f, r)[last.f]

\* C19: TreemapOptions.to_dict returns for every TreemapOptions instance, one
\* constructed with no arguments included, and the mapping it returns holds
\* the camelCase key of every treemap field whose value is not empty.
C19_TreemapToDict ==
    (last.op = "ToDict" /\ last.cls = "TreemapOptions") =>
        /\ last.err = "" /\ last.out.t = "dict"
        /\ \A i \in DOMAIN TreemapOptions_to_dict :
               ~IsEmptyValue(to_dict(obj.a[TreemapOptions_to_dict[i][2]])) =>
                   TreemapOptions_to_dict[i][1] \in DOMAIN last.out.a

\* C20: AnimationOptions.defer and AnimationOptions.duration reject a
\* negative number with a ValueError at assignment, accept None, which they
\* store as None, and store a non-negative integer as that integer.
C20_DeferDuration ==
    AssignedTo({<<"AnimationOptions", "defer">>, <<"AnimationOptions", "duration">>}) =>
        /\ (last.raw.t = "num" /\ last.raw.n < 0) => IsValueError(last.err)
        /\ last.raw.t = "None" => (last.err = "" /\ obj.a[last.f] = PyNone)
        /\ (last.raw.t = "num" /\ last.raw.n >= 0 /\ last.raw.n % 10 = 0) =>
               (last.err = "" /\ obj.a[last.f] = last.raw)

\* a negative number assigned to AnimationOptions.duration was refused and
\* the duration is as it was
C20_Witness ==
    /\ AssignedTo({<<"AnimationOptions", "duration">>})
    /\ last.raw.t = "num" /\ last.raw.n < 0
    /\ last.err = "MinimumValueError"
    /\ obj.a["duration"] = PyNone

\* the numeric fields of Legend that carry no bound
LegendNumericFields ==
    {<<"Legend", f>> : f \in {"border_radius", "border_width", "margin", "padding",
                              "symbol_padding", "symbol_radius", "x", "y"}}

\* the external key under which to_dict writes attribute f of class cls
ExternalKeyOf(cls, f) ==
    LET t == ClassToDict(cls) IN t[CHOOSE i \in DOMAIN t : t[i][2] = f][1]

\* C21: after a successful assignment of a number v to any of the numeric
\* Legend attributes border_radius, border_width, margin, padding,
\* symbol_padding, symbol_radius, x and y, reading the attribute returns v and
\* the untrimmed mapping carries v under the attribute's external key.
C21_LegendSetThenGet ==
    (AssignedTo(LegendNumericFields) /\ last.raw.t = "num" /\ last.err = "") =>
        /\ obj.a[last.f] = last.raw
        /\ to_untrimmed_dict(obj)[ExternalKeyOf("Legend", last.f)] = last.raw

\* C22: every attribute is nullable: assigning None to any attribute of any
\* entity succeeds and the attribute then reads None; TreemapOptions.color_by_point
\* assigned None reads None, not False.
C22_Nullable ==
    (last.op = "SetAttr" /\ last.raw = PyNone) =>
        (last.err = "" /\ obj.a[last.f] = PyNone)

\* a non-empty list whose items are strings, Gradient instances or Pattern
\* instances
IsColorList(raw) ==
    /\ raw.t = "list" /\ Len(raw.a) > 0
    /\ \A i \in DOMAIN raw.a : raw.a[i].t = "str" \/ IsInstance(raw.a[i], {"Gradient", "Pattern"})

\* C23: TreemapOptions.colors accepts a non-empty list whose items are
\* strings, Gradient instances or Pattern instances and stores a list of the
\* same length and order that holds each item as it was given; an empty or
\* None input stores None.
C23_ColorsList ==
    AssignedTo({<<"TreemapOptions", "colors">>}) =>
        /\ IsColorList(last.raw) => (last.err = "" /\ obj.a["colors"] = last.raw)
        /\ (last.raw.t = "None" \/ (last.raw.t = "list" /\ Len(last.raw.a) = 0)) =>
               (last.err = "" /\ obj.a["colors"] = PyNone)

\* C24: Legend.width accepts a string or a non-negative number: a string is
\* stored as that string, a positive number is stored as that number, a
\* negative number is rejected with the validation error, and None stores None.
C24_LegendWidth ==
    AssignedTo({<<"Legend", "width">>}) =>
        /\ (last.raw.t = "str" /\ Len(last.raw.s) > 0) =>
               (last.err = "" /\ obj.a["width"] = last.raw)
        /\ (last.raw.t = "num" /\ last.raw.n > 0) =>
               (last.err = "" /\ obj.a["width"] = last.raw)
        /\ (last.raw.t = "num" /\ last.raw.n < 0) =>
               (last.err # "" /\ IsValueError(last.err))
        /\ last.raw.t = "None" => (last.err = "" /\ obj.a["width"] = PyNone)

\* None, or a whole number that is at least `minimum`
IsNoneOrIntegerFrom(v, minimum) ==
    v.t = "None" \/ (v.t = "num" /\ v.n % 10 = 0 /\ v.n >= minimum * 10)

\* C25: HeatmapOptions.colsize and HeatmapOptions.rowsize hold only None or
\* an integer >= 1: assigning 0 or a negative integer raises the validation
\* error and assigning 1 succeeds; HeatmapOptions.border_radius holds only
\* None or a number >= 0.
C25_HeatmapBounds ==
    /\ (obj.t = "obj" /\ obj.c = "HeatmapOptions") =>
           /\ IsNoneOrIntegerFrom(obj.a["colsize"], 1)
           /\ IsNoneOrIntegerFrom(obj.a["rowsize"], 1)
           /\ obj.a["border_radius"].t = "None"
                  \/ (obj.a["border_radius"].t = "num" /\ obj.a["border_radius"].n >= 0)
    /\ (/\ last.op \in {"SetAttr", "NewWith"} /\ last.cls = "HeatmapOptions"
        /\ last.f \in {"colsize", "rowsize"} /\ last.raw.t = "num") =>
           /\ last.raw.n <= 0 => (last.err # "" /\ IsValueError(last.err))
           /\ last.raw = Num(1) => (last.err = "" /\ obj.a[last.f] = Num(1))

\* 0 assigned to HeatmapOptions.colsize is refused for its bound
C25_Witness ==
    /\ AssignedTo({<<"HeatmapOptions", "colsize">>})
    /\ last.raw = Num(0) /\ last.err = "MinimumValueError"
    /\ obj.a["colsize"] = PyNone

\* the string is outside the allowed set of the field, whatever its letter case
OutsideAllowed(cls, f, s) == \A a \in AllowedValues(cls, f) : Lower(a) # Lower(s)

\* C26: every enum-constrained setter (Legend.align, Legend.layout,
\* Legend.vertical_align, Zone.dash_style, TreemapOptions.stacking,
\* TreemapOptions.layout_starting_direction, SankeyOptions.link_color_mode)
\* reports a string outside its allowed set with one error type,
\* HighchartsValueError, raised by the assignment itself.
C26_OneEnumErrorKind ==
    (/\ AssignedTo(EnumFields)
     /\ last.raw.t = "str" /\ Truthy(last.raw)
     /\ OutsideAllowed(last.cls, last.f, last.raw.s)) =>
        last.err = "HighchartsValueError"

\* C27: a rejected assignment changes nothing: when a setter raises (enum
\* mismatch, bound violation, unresolvable colour, bad item in
\* TreemapOptions.colors), the attribute keeps the value it had before the
\* call and every other attribute of the entity is unchanged.
C27_RejectedAssignmentKeepsEntity ==
    [][(last'.op = "SetAttr" /\ last'.err # "") => obj' = obj]_vars

\* a negative number assigned to TreemapOptions.boost_threshold is refused and
\* the attribute still holds the 5000 that the constructor gave it
C27_Witness ==
    /\ AssignedTo({<<"TreemapOptions", "boost_threshold">>})
    /\ last.raw.t = "num" /\ last.raw.n < 0
    /\ last.err = "MinimumValueError"
    /\ obj.a["boost_threshold"] = Num(5000)

\* the setter bodies of the boolean fields, of the bounded numeric fields and
\* of the colour fields
BooleanBodies == {"bool", "TreemapOptions_color_by_point"}
BoundedBodies ==
    {"numeric_min0", "integer_min0", "AnimationOptions_defer", "AnimationOptions_duration",
     "HeatmapOptions_colsize", "HeatmapOptions_rowsize", "TreemapOptions_animation_limit"}
ColorBodies == {"color", "HoverState_color", "SelectState_color"}

\* the lower bound of a bounded numeric field
LowerBound(body) ==
    IF body.b \in {"HeatmapOptions_colsize", "HeatmapOptions_rowsize"} THEN 1 ELSE 0

\* the value v satisfies the constraint of field f of class cls
SatisfiesConstraint(cls, f, v) ==
    LET body == ClassSetters(cls)[f] IN
    /\ <<cls, f>> \in EnumFields => (v.t = "None" \/ (v.t = "str" /\ v.s \in AllowedValues(cls, f)))
    /\ body.b \in BoundedBodies => (v.t = "None" \/ (v.t = "num" /\ v.n >= LowerBound(body) * 10))
    /\ body.b \in BooleanBodies => v.t \in {"None", "bool"}
    /\ body.b \in ColorBodies =>
           (v.t \in {"None", "str"} \/ IsInstance(v, {"Gradient", "Pattern"}))

\* C28: after any sequence of constructions, from_dict calls and attribute
\* assignments, accepted or rejected, every stored attribute satisfies its
\* field's constraint: an enum field is None or a member of its allowed set, a
\* bounded numeric field is None or within its bound, a boolean field is None
\* or a bool, a colour field is None, a string, a Gradient or a Pattern.
C28_ValidityInvariant ==
    obj.t = "obj" => \A f \in Fields(obj.c) : SatisfiesConstraint(obj.c, f, obj.a[f])

\* a TreemapOptions that took "normal" for its stacking and holds the bounded
\* number and the bool that its constructor stored
C28_Witness ==
    /\ AssignedTo({<<"TreemapOptions", "stacking">>})
    /\ last.err = "" /\ obj.a["stacking"] = Str(s_normal)
    /\ obj.a["boost_threshold"] = Num(5000)
    /\ obj.a["color_by_point"] = PyFalse

\* C29: serialisation is stable under a round trip: for every entity e,
\* to_dict(from_dict(to_dict(e))) is built without error and equals
\* to_dict(e); a field that e holds as None, and that to_dict(e) therefore
\* leaves out, does not come back with a value (for instance a HoverState
\* whose enabled and brightness are None).
C29_RoundTripStable ==
    last.op = "RoundTrip" =>
        /\ last.err = ""
        /\ call_to_dict(last.out, parent_as_dict) = call_to_dict(obj, parent_as_dict)

\* C30: the two construction paths agree on defaults: for every entity type,
\* the entity built from the kwargs that from_dict derives from an empty
\* mapping ends as the entity built with no arguments ends and has equal
\* values on every attribute (for TreemapOptions: boost_threshold,
\* crop_threshold, linecap, line_width, point_interval, point_start,
\* soft_threshold and zone_axis among them).
C30_ConstructionPathsAgree ==
    (last.op = "FromDict" /\ last.raw = Dict(NoAttrs)) =>
        /\ last.err = Construct(last.cls, NoAttrs).err
        /\ last.out = Construct(last.cls, NoAttrs).v
====
